---- MODULE Spec2Model ----
(***************************************************************************)
(* A model of the pulse-db storage core: the BufferPool with its frames,   *)
(* page table and LRU replacer on top of the DiskManager, and the slotted  *)
(* DataPage at byte level.                                                 *)
(***************************************************************************)
EXTENDS Integers, Sequences, FiniteSets, TLC

(***************************************************************************)
(* Bounds of the model.                                                    *)
(***************************************************************************)
MaxPool == 2
MaxPages == 3
MaxPin == 2
MaxFree == 1
MaxInserts == 6
MaxDeletes == 2
MaxCompacts == 2
MaxSlot == 2
MaxThreads == 2
MaxSetup == 4
MaxLruFrames == 3
MaxLruCalls == 6
MaxDiskPages == 2
MaxDiskFree == 2
MaxAllocs == 3
MaxPinCalls == 3
MaxLockedCalls == 4
MaxIndexPages == 2
MaxIndexCalls == 3
MaxFills == 2
MaxCapacity == 2
MaxHeapId == 2
MaxHeapCalls == 7

(***************************************************************************)
(* Values.                                                                 *)
(***************************************************************************)
NoFrame == -1
NoPageId == -1
PageIds == 0 .. MaxPages
Types == {"DATA", "INDEX"}
CreateTypes == {"DATA", "INVALID"}
NullPage == [id |-> 0, type |-> "null"]
NoImage == [id |-> 0, type |-> "INVALID"]

\* The records the calls of insertRecord pass: key, payload bytes, type.
Records ==
  {[key |-> 1, data |-> <<17>>, type |-> 3],
   [key |-> 2, data |-> <<34, 51>>, type |-> 5]}

VARIABLES
  poolSize,   \* frames.size()
  frames,     \* BufferPool::frames
  pageTable,  \* BufferPool::pageTable
  frameList,  \* LRUReplacer::frameList, front first
  frameMap,   \* keys of LRUReplacer::frameMap
  pageCount,  \* DiskManager::header.pageCount
  freePages,  \* DiskManager::freePages
  file,       \* the page images of the database file
  last,       \* the last BufferPool call: its name, how it ended, its victim, the page it evicted
  scen,       \* how far the calls made so far follow the page-replacement test
  mem,        \* Page::data of one DataPage: its non-zero bytes by address
  fault,      \* a call on the DataPage had undefined behaviour
  live,       \* by slot ID, the records inserted into the DataPage and not deleted since
  calls,      \* the numbers of DataPage calls made
  thr,        \* the threads calling the pool at the same time, and what each was returned
  hist,       \* the calls made on an LRUReplacer of its own, each with what it returned
  dirty,      \* DiskManager::dirty
  dbfile,     \* the database file at byte level: its length and its non-zero bytes by offset
  dm,         \* the DiskManager calls made: whether an instance is open, what the calls returned
  pins,       \* one Frame called by threads with no lock: its pinCount and each thread's position
  mutex,      \* LRUReplacer::mutex: the thread that holds it, and each thread's position in its call
  index,      \* IndexPages called directly: the nodes, and what was called on them
  heap        \* one PageHeap: its array, capacity and heapSize, and the page IDs it was given

poolVars == <<poolSize, frames, pageTable, frameList, frameMap>>
diskVars == <<pageCount, freePages, file>>
dataVars == <<mem, fault, live, calls>>
callVars == <<hist, dirty, dbfile, dm>>
moreVars == <<pins, mutex, index, heap>>
vars == <<poolSize, frames, pageTable, frameList, frameMap, pageCount, freePages, file, last, scen,
          mem, fault, live, calls, thr, hist, dirty, dbfile, dm, pins, mutex, index, heap>>

FrameIdx == 0 .. (poolSize - 1)

Threads == 1 .. MaxThreads

\* What a thread was returned: nothing yet.
NoGot == [ok |-> FALSE, id |-> NoPageId, frame |-> NoFrame]

\* No thread has been started: the pool is called by one caller.
NoThreads ==
  [phase |-> "setup", n |-> 0, kind |-> "none", page |-> NoPageId,
   frame |-> NoFrame, pc |-> [t \in Threads |-> "ready"], got |-> [t \in Threads |-> NoGot]]

\* One Frame just constructed and no thread calling it.  pinCount is the
\* 32-bit counter as its two 16-bit halves; pc: "idle", or "decrement" for
\* a thread inside unpin that has found pinCount > 0; n: the calls a thread
\* has made; incs and decs: the increments and decrements executed.
NoPins ==
  [pinCount |-> [lo |-> 0, hi |-> 0], pc |-> [t \in Threads |-> "idle"],
   n |-> [t \in Threads |-> 0], incs |-> 0, decs |-> 0]

\* The mutex of an LRUReplacer that no thread holds (owner 0) and no thread
\* inside a call; arg: the frame ID a thread's call was passed or has chosen.
NoOwner ==
  [owner |-> 0, pc |-> [t \in Threads |-> "idle"], arg |-> [t \in Threads |-> NoFrame]]

\* A DiskManager just constructed with create = true: no call made yet.
\* alive: the instance exists; created: it made the file; ids: the IDs its
\* allocatePage calls returned; freed: a deallocatePage of it returned true;
\* peak: the largest pageCount it had; flushed: by page ID, the image of the
\* last flushPage for that ID if it returned true; last: the last call;
\* live: the IDs its allocatePage calls returned that no deallocatePage
\* returning true was given since.
NoCalls ==
  [alive |-> TRUE, created |-> TRUE, ids |-> <<>>, freed |-> FALSE, peak |-> 0,
   flushed |-> <<>>, last |-> [op |-> "create", ok |-> TRUE], live |-> {}]

(***************************************************************************)
(* Frame (include/pulsedb/cache/frame.hpp).                                *)
(***************************************************************************)
NewFrame == [page |-> NullPage, pageId |-> 0, pinCount |-> 0, dirty |-> FALSE]

FrameReset(newPage) ==
  [page |-> newPage,
   pageId |-> IF newPage # NullPage THEN newPage.id ELSE 0,
   pinCount |-> 0,
   dirty |-> FALSE]

\* Mutant of FramePin: the pin count is set, not incremented.
FramePin_SetsOne(fr) == [fr EXCEPT !.pinCount = 1]

FramePin(fr) == [fr EXCEPT !.pinCount = @ + 1]

FrameUnpin(fr) == [fr EXCEPT !.pinCount = IF @ > 0 THEN @ - 1 ELSE 0]

FrameMark(fr) == [fr EXCEPT !.dirty = TRUE]

FrameUnmark(fr) == [fr EXCEPT !.dirty = FALSE]

\* Mutant of IsUnpinned: the comparison is >= instead of ==.
IsUnpinned_NonNegative(fr) == fr.pinCount >= 0

IsUnpinned(fr) == fr.pinCount = 0

(***************************************************************************)
(* LRUReplacer (include/pulsedb/cache/policies/lru_replacer.hpp).  A       *)
(* replacer value is the pair of its list and of the keys of its map.      *)
(***************************************************************************)
SeqRemove(s, x) == SelectSeq(s, LAMBDA y : y # x)

ReplacerPin(r, frameId) ==
  IF frameId \in r.map
    THEN [list |-> SeqRemove(r.list, frameId), map |-> r.map \ {frameId}]
    ELSE r

\* Mutant of ReplacerUnpin: the old entry of the frame is not removed.
ReplacerUnpin_KeepsOld(r, frameId) ==
  [list |-> <<frameId>> \o r.list, map |-> r.map \cup {frameId}]

ReplacerUnpin(r, frameId) ==
  LET q == ReplacerPin(r, frameId)
  IN [list |-> <<frameId>> \o q.list, map |-> q.map \cup {frameId}]

ReplacerVictim(r) ==
  IF r.list = <<>>
    THEN [v |-> NoFrame, r |-> r]
    ELSE LET victimId == r.list[Len(r.list)]
         IN [v |-> victimId,
             r |-> [list |-> SubSeq(r.list, 1, Len(r.list) - 1),
                    map |-> r.map \ {victimId}]]

Replacer == [list |-> frameList, map |-> frameMap]

(***************************************************************************)
(* DiskManager (src/storage/disk_manager.cpp).  A disk value d holds       *)
(* header.pageCount, the free-page stack and the page images of the file.  *)
(* A read or write of the file can fail (ioOk = FALSE).                    *)
(***************************************************************************)
Disk == [pageCount |-> pageCount, freePages |-> freePages, file |-> file]

\* Mutant of AllocatePage: the free page is taken from the front of the list.
AllocatePage_TakesFront(d) ==
  IF d.freePages # <<>>
    THEN [id |-> d.freePages[1], d |-> [d EXCEPT !.freePages = Tail(@)]]
    ELSE [id |-> d.pageCount, d |-> [d EXCEPT !.pageCount = @ + 1]]

\* Mutant of AllocatePage: a fresh ID is one past the current pageCount.
AllocatePage_SkipsOne(d) ==
  IF d.freePages # <<>>
    THEN [id |-> d.freePages[Len(d.freePages)],
          d |-> [d EXCEPT !.freePages = SubSeq(@, 1, Len(@) - 1)]]
    ELSE [id |-> d.pageCount + 1, d |-> [d EXCEPT !.pageCount = @ + 1]]

AllocatePage(d) ==
  IF d.freePages # <<>>
    THEN [id |-> d.freePages[Len(d.freePages)],
          d |-> [d EXCEPT !.freePages = SubSeq(@, 1, Len(@) - 1)]]
    ELSE [id |-> d.pageCount,
          d |-> [d EXCEPT !.pageCount = @ + 1]]

\* Mutant of DeallocatePage: the page ID is not compared with pageCount.
DeallocatePage_AnyId(d, pageId) ==
  [ok |-> TRUE, d |-> [d EXCEPT !.freePages = Append(@, pageId)]]

DeallocatePage(d, pageId) ==
  IF pageId >= d.pageCount
    THEN [ok |-> FALSE, d |-> d]
    ELSE [ok |-> TRUE, d |-> [d EXCEPT !.freePages = Append(@, pageId)]]

\* The page read from the file, NullPage when the read fails: the ID is out
\* of range, the file cannot be read, or byte 0 of the image is no DATA or
\* INDEX type (an image never written reads as zeros or is past the end).
DiskFetchPage(d, pageId, ioOk) ==
  IF pageId >= d.pageCount THEN NullPage
  ELSE IF ~ioOk THEN NullPage
  ELSE IF d.file[pageId].type \notin Types THEN NullPage
  ELSE d.file[pageId]

DiskFlushPage(d, page, ioOk) ==
  IF ~ioOk
    THEN [ok |-> FALSE, d |-> d]
    ELSE [ok |-> TRUE, d |-> [d EXCEPT !.file[page.id] = page]]

(***************************************************************************)
(* BufferPool (src/cache/buffer_pool.cpp).  A pool value s holds the       *)
(* frames, the page table, the replacer and the disk.                      *)
(***************************************************************************)
Pool == [frames |-> frames, pageTable |-> pageTable, rep |-> Replacer, disk |-> Disk]

SetMin(S) == CHOOSE x \in S : \A y \in S : x <= y

\* findVictim: an unused frame first, otherwise the replacer's victim, which
\* is removed from the replacer.
FindVictim(s) ==
  LET unused == {i \in DOMAIN s.frames : s.frames[i].page = NullPage}
  IN IF unused # {}
       THEN [v |-> SetMin(unused), s |-> s]
       ELSE LET rv == ReplacerVictim(s.rep)
            IN [v |-> rv.v, s |-> [s EXCEPT !.rep = rv.r]]

\* Mutant of EvictFrame: the result of the write-back is not looked at.
EvictFrame_IgnoresFlush(s, frameId, ioOk) ==
  LET frame == s.frames[frameId]
      fl == DiskFlushPage(s.disk, frame.page, ioOk)
  IN IF frame.page = NullPage
       THEN [ok |-> TRUE, s |-> s, flush |-> "none", reset |-> {}, evicted |-> NoPageId]
     ELSE IF ~IsUnpinned(frame)
       THEN [ok |-> FALSE, s |-> s, flush |-> "none", reset |-> {}, evicted |-> NoPageId]
     ELSE [ok |-> TRUE,
           s |-> [s EXCEPT !.disk = IF frame.dirty THEN fl.d ELSE @,
                           !.pageTable[frame.pageId] = NoFrame,
                           !.frames[frameId] = FrameReset(NullPage)],
           flush |-> IF ~frame.dirty THEN "none" ELSE IF fl.ok THEN "ok" ELSE "fail",
           reset |-> {frameId},
           evicted |-> frame.pageId]

\* evictFrame: flush states what the disk write did, "none" when no write
\* was attempted.
EvictFrame(s, frameId, ioOk) ==
  LET frame == s.frames[frameId]
      fl == DiskFlushPage(s.disk, frame.page, ioOk)
  IN IF frame.page = NullPage THEN [ok |-> TRUE, s |-> s, flush |-> "none", reset |-> {}, evicted |-> NoPageId]
     ELSE IF ~IsUnpinned(frame) THEN [ok |-> FALSE, s |-> s, flush |-> "none", reset |-> {}, evicted |-> NoPageId]
     ELSE IF frame.dirty /\ ~fl.ok THEN [ok |-> FALSE, s |-> s, flush |-> "fail", reset |-> {}, evicted |-> NoPageId]
     ELSE [ok |-> TRUE,
           s |-> [s EXCEPT !.disk = IF frame.dirty THEN fl.d ELSE @,
                           !.pageTable[frame.pageId] = NoFrame,
                           !.frames[frameId] = FrameReset(NullPage)],
           flush |-> IF frame.dirty THEN "ok" ELSE "none",
           reset |-> {frameId},
           evicted |-> frame.pageId]

\* The outcome of a call: the pool afterwards, the page or flag returned, and
\* what the call did on its way (the victim findVictim chose, the frames it
\* reset, the result of the write-back of the victim, the cause of a failure).
NoEvict == [reset |-> {}, flush |-> "none", evicted |-> NoPageId]

Outcome(s, page, ok, victim, ev, why) ==
  [s |-> s, page |-> page, ok |-> ok, victim |-> victim, reset |-> ev.reset,
   flush |-> ev.flush, evicted |-> ev.evicted, why |-> why]

Install(s, frameId, page, markDirty) ==
  LET fr == FramePin(FrameReset(page))
  IN [s EXCEPT !.frames[frameId] = IF markDirty THEN FrameMark(fr) ELSE fr,
               !.pageTable[page.id] = frameId,
               !.rep = ReplacerPin(@, frameId)]

FetchPageOp(s, pageId, readOk, flushOk) ==
  LET hit == s.pageTable[pageId]
      fv == FindVictim(s)
      page == DiskFetchPage(fv.s.disk, pageId, readOk)
      ev == EvictFrame(fv.s, fv.v, flushOk)
  IN IF hit # NoFrame
       THEN Outcome([s EXCEPT !.frames[hit] = FramePin(@),
                              !.rep = ReplacerPin(@, hit)],
                    s.frames[hit].page, TRUE, NoFrame, NoEvict, "hit")
     ELSE IF fv.v = NoFrame
       THEN Outcome(fv.s, NullPage, FALSE, NoFrame, NoEvict, "novictim")
     ELSE IF page = NullPage
       THEN Outcome(fv.s, NullPage, FALSE, fv.v, NoEvict, "read")
     ELSE IF ~ev.ok
       THEN Outcome(ev.s, NullPage, FALSE, fv.v, ev, "evict")
     ELSE Outcome(Install(ev.s, fv.v, page, FALSE), page, TRUE, fv.v,
                  [ev EXCEPT !.reset = @ \cup {fv.v}], "miss")

\* createPage(type, isLeaf, level): type is DATA, INDEX or a rejected type.
CreatePageOp(s, type, flushOk) ==
  LET al == AllocatePage(s.disk)
      s1 == [s EXCEPT !.disk = al.d]
      fv == FindVictim(s1)
      ev == EvictFrame(fv.s, fv.v, flushOk)
      page == [id |-> al.id, type |-> type]
  IN IF fv.v = NoFrame
       THEN Outcome(fv.s, NullPage, FALSE, NoFrame, NoEvict, "novictim")
     ELSE IF ~ev.ok
       THEN Outcome(ev.s, NullPage, FALSE, fv.v, ev, "evict")
     ELSE IF type \notin Types
       THEN Outcome(ev.s, NullPage, FALSE, fv.v, ev, "type")
     ELSE Outcome(Install(ev.s, fv.v, page, TRUE), page, TRUE, fv.v,
                  [ev EXCEPT !.reset = @ \cup {fv.v}], "new")

\* Mutant of DeletePageOp: a pinned page is not refused.
DeletePageOp_NoPinCheck(s, pageId, readIdx) ==
  LET hit == s.pageTable[pageId]
      s1 == IF hit = NoFrame THEN s
            ELSE [s EXCEPT !.frames[hit] = FrameReset(NullPage),
                           !.pageTable[pageId] = NoFrame,
                           !.rep = ReplacerPin(@, readIdx)]
      de == DeallocatePage(s1.disk, pageId)
      rs == IF hit = NoFrame THEN {} ELSE {hit}
  IN IF ~de.ok
       THEN Outcome(s1, NullPage, FALSE, NoFrame, [NoEvict EXCEPT !.reset = rs], "dealloc")
       ELSE Outcome([s1 EXCEPT !.disk = de.d], NullPage, TRUE, NoFrame,
                    [NoEvict EXCEPT !.reset = rs], "deleted")

\* Mutant of DeletePageOp: the page is deallocated on disk before the pin
\* check, so a refused call still puts its ID on the free list.
DeletePageOp_DeallocFirst(s, pageId, readIdx) ==
  LET hit == s.pageTable[pageId]
      de == DeallocatePage(s.disk, pageId)
      s0 == [s EXCEPT !.disk = de.d]
      s1 == IF hit = NoFrame THEN s0
            ELSE [s0 EXCEPT !.frames[hit] = FrameReset(NullPage),
                            !.pageTable[pageId] = NoFrame,
                            !.rep = ReplacerPin(@, readIdx)]
      rs == IF hit = NoFrame THEN {} ELSE {hit}
  IN IF hit # NoFrame /\ ~IsUnpinned(s.frames[hit])
       THEN Outcome(s0, NullPage, FALSE, NoFrame, NoEvict, "pinned")
     ELSE IF ~de.ok
       THEN Outcome(s1, NullPage, FALSE, NoFrame, [NoEvict EXCEPT !.reset = rs], "dealloc")
     ELSE Outcome(s1, NullPage, TRUE, NoFrame, [NoEvict EXCEPT !.reset = rs], "deleted")

\* deletePage: replacer.pin(it->second) reads the map node after
\* pageTable.erase(it) has freed it, so the frame index it passes is whatever
\* the freed node holds: readIdx is any value, the erased entry's among them.
DeletePageOp(s, pageId, readIdx) ==
  LET hit == s.pageTable[pageId]
      s1 == IF hit = NoFrame THEN s
            ELSE [s EXCEPT !.frames[hit] = FrameReset(NullPage),
                           !.pageTable[pageId] = NoFrame,
                           !.rep = ReplacerPin(@, readIdx)]
      de == DeallocatePage(s1.disk, pageId)
      rs == IF hit = NoFrame THEN {} ELSE {hit}
  IN IF hit # NoFrame /\ ~IsUnpinned(s.frames[hit])
       THEN Outcome(s, NullPage, FALSE, NoFrame, NoEvict, "pinned")
     ELSE IF ~de.ok
       THEN Outcome(s1, NullPage, FALSE, NoFrame, [NoEvict EXCEPT !.reset = rs], "dealloc")
     ELSE Outcome([s1 EXCEPT !.disk = de.d], NullPage, TRUE, NoFrame, [NoEvict EXCEPT !.reset = rs], "deleted")

\* Mutant of UnpinPageOp: the dirty bit is assigned from the argument, so
\* dirty = false clears it.
UnpinPageOp_AssignsDirty(s, pageId, isDirty) ==
  LET hit == s.pageTable[pageId]
      fr == [FrameUnpin(s.frames[hit]) EXCEPT !.dirty = isDirty]
  IN IF hit = NoFrame
       THEN Outcome(s, NullPage, FALSE, NoFrame, NoEvict, "absent")
       ELSE Outcome([s EXCEPT !.frames[hit] = fr,
                              !.rep = IF IsUnpinned(fr) THEN ReplacerUnpin(@, hit) ELSE @],
                    NullPage, TRUE, NoFrame, NoEvict, "unpinned")

UnpinPageOp(s, pageId, isDirty) ==
  LET hit == s.pageTable[pageId]
      fr0 == FrameUnpin(s.frames[hit])
      fr == IF isDirty THEN FrameMark(fr0) ELSE fr0
  IN IF hit = NoFrame
       THEN Outcome(s, NullPage, FALSE, NoFrame, NoEvict, "absent")
       ELSE Outcome([s EXCEPT !.frames[hit] = fr,
                              !.rep = IF IsUnpinned(fr) THEN ReplacerUnpin(@, hit) ELSE @],
                    NullPage, TRUE, NoFrame, NoEvict, "unpinned")

FlushPageOp(s, pageId, ioOk) ==
  LET hit == s.pageTable[pageId]
      frame == s.frames[hit]
      fl == DiskFlushPage(s.disk, frame.page, ioOk)
  IN IF hit = NoFrame
       THEN Outcome(s, NullPage, FALSE, NoFrame, NoEvict, "absent")
     ELSE IF ~frame.dirty
       THEN Outcome(s, NullPage, TRUE, NoFrame, NoEvict, "clean")
     ELSE IF ~fl.ok
       THEN Outcome(s, NullPage, FALSE, NoFrame, [NoEvict EXCEPT !.flush = "fail"], "write")
     ELSE Outcome([s EXCEPT !.disk = fl.d, !.frames[hit] = FrameUnmark(@)],
                  NullPage, TRUE, NoFrame, [NoEvict EXCEPT !.flush = "ok"], "flushed")

\* flushAll: every dirty frame of the page table is written, except those
\* whose write fails (the pages of failed); the order of the iteration does
\* not matter, the entries of the page table being distinct pages.
FlushAllOp(s, failed) ==
  LET hitF(p) == s.pageTable[p]
      done == {p \in DOMAIN s.pageTable :
                 hitF(p) # NoFrame /\ s.frames[hitF(p)].dirty /\ p \notin failed}
      doneFrames == {hitF(p) : p \in done}
      written == {s.frames[f].page : f \in doneFrames}
  IN Outcome([s EXCEPT
                !.frames = [f \in DOMAIN s.frames |->
                              IF f \in doneFrames THEN FrameUnmark(s.frames[f]) ELSE s.frames[f]],
                !.disk.file = [q \in DOMAIN s.disk.file |->
                              IF \E pg \in written : pg.id = q
                                THEN CHOOSE pg \in written : pg.id = q
                                ELSE s.disk.file[q]]],
             NullPage, TRUE, NoFrame, NoEvict, "flushall")

(***************************************************************************)
(* The page-replacement test (tests/pulsedb/cache/test_buffer_pool.cpp,    *)
(* "page replacement") as an observer of the calls: scen follows the calls *)
(* as long as they are, on a new pool whose disk works, poolSize           *)
(* createPage calls, each page unpinned once with dirty = false ("fill"),   *)
(* one more createPage ("extra"), then fetchPage of one of the first pages  *)
(* and unpinPage of the page fetched, in turns ("after").  Any other call   *)
(* turns it "off".  made lists the pages created, unp the pages unpinned,   *)
(* in order; res is the result of the last call of the phase, pend the page *)
(* fetched and not yet unpinned.                                            *)
(***************************************************************************)
ScenOff == [phase |-> "off", made |-> <<>>, unp |-> <<>>, res |-> "none", pend |-> NoPageId]

SeqRange(q) == {q[i] : i \in 1 .. Len(q)}

ScenNext(sc, n, op, arg, o, works) ==
  IF sc.phase = "off" \/ ~works THEN ScenOff
  ELSE IF sc.phase = "fill" /\ op = "createPage" /\ Len(sc.made) < n /\ o.ok
    THEN [sc EXCEPT !.made = Append(@, o.page.id)]
  ELSE IF sc.phase = "fill" /\ op = "unpinPage" /\ arg \in SeqRange(sc.made)
          /\ arg \notin SeqRange(sc.unp)
    THEN [sc EXCEPT !.unp = Append(@, arg)]
  ELSE IF sc.phase = "fill" /\ op = "createPage" /\ Len(sc.made) = n /\ Len(sc.unp) = n
          /\ o.why # "type"
    THEN [sc EXCEPT !.phase = "extra", !.res = IF o.ok THEN "ok" ELSE "fail"]
  ELSE IF sc.phase \in {"extra", "after"} /\ op = "fetchPage" /\ arg \in SeqRange(sc.made)
          /\ sc.pend = NoPageId /\ sc.res = "ok"
    THEN [sc EXCEPT !.phase = "after", !.res = IF o.ok THEN "ok" ELSE "fail",
                    !.pend = IF o.ok THEN arg ELSE NoPageId]
  ELSE IF sc.phase = "after" /\ op = "unpinPage" /\ arg = sc.pend
    THEN [sc EXCEPT !.pend = NoPageId]
  ELSE ScenOff

(***************************************************************************)
(* DataPage (src/storage/data_page.cpp, include/pulsedb/storage/           *)
(* data_page.hpp) at byte level.  The page buffer is the map mem from the  *)
(* addresses of its non-zero bytes to those bytes; 16-bit fields are       *)
(* little-endian and unsigned arithmetic wraps.  An access outside the     *)
(* buffer is undefined behaviour: the call then has every outcome, which   *)
(* a page value records in its field fault.                                *)
(***************************************************************************)
PAGE_SIZE == 4096
DATA_HEADER_SIZE == 23
RECORD_HEADER_SIZE == 4
SLOT_SIZE == 6
PAIR_SIZE == 6
INVALID_SLOT == 65535
MAX_FREE_SPACE == PAGE_SIZE - DATA_HEADER_SIZE
NONE == 0
DELETED == 1
PageTypeDATA == 2

\* Byte offsets of the fields of the packed PageHeader and DataHeader.
OffType == 0
OffPageId == 1
OffFreeSpace == 9
OffItemCount == 11
OffFreeSpaceOffset == 13
OffFirstSlotOffset == 15
OffFirstFreeSlot == 17
OffSlotCount == 19
OffDirectoryCount == 21

Wrap16(x) == x % 65536

Rd(m, a) == IF a \in DOMAIN m THEN m[a] ELSE 0

Wr(m, a, b) ==
  IF b = 0
  THEN [x \in (DOMAIN m) \ {a} |-> m[x]]
  ELSE [x \in (DOMAIN m) \cup {a} |-> IF x = a THEN b ELSE m[x]]

Rd16(m, a) == Rd(m, a) + 256 * Rd(m, a + 1)

Wr16(m, a, v) == Wr(Wr(m, a, v % 256), a + 1, (v \div 256) % 256)

\* memcpy into m: the n bytes at dst become the n bytes of s at from.
Blit(m, dst, n, s, from) ==
  LET rng == dst .. (dst + n - 1)
  IN [x \in ((DOMAIN m) \ rng) \cup {y \in rng : Rd(s, from + y - dst) # 0} |->
        IF x \in rng THEN Rd(s, from + x - dst) ELSE m[x]]

InPage(a, n) == a >= 0 /\ a + n <= PAGE_SIZE

Fault(pg) == [pg EXCEPT !.fault = TRUE]

Touch(pg, a, n) == IF InPage(a, n) THEN pg ELSE Fault(pg)

Load16(pg, a) == IF InPage(a, 2) THEN Rd16(pg.mem, a) ELSE 0

Store16(pg, a, v) ==
  IF InPage(a, 2) THEN [pg EXCEPT !.mem = Wr16(@, a, v)] ELSE Fault(pg)

StoreBytes(pg, a, bytes) ==
  IF InPage(a, Len(bytes))
  THEN [pg EXCEPT !.mem = Blit(@, a, Len(bytes), bytes, 1)]
  ELSE Fault(pg)

FreeSpace(m) == Rd16(m, OffFreeSpace)
ItemCount(m) == Rd16(m, OffItemCount)
FreeSpaceOffset(m) == Rd16(m, OffFreeSpaceOffset)
FirstFreeSlot(m) == Rd16(m, OffFirstFreeSlot)
SlotCount(m) == Rd16(m, OffSlotCount)
DirectoryCount(m) == Rd16(m, OffDirectoryCount)

IsSet(flags, flag) == (flags \div flag) % 2 = 1

SetFlag(flags, flag) == IF IsSet(flags, flag) THEN flags ELSE flags + flag

HasSpace(m, size) == FreeSpace(m) >= size

SpaceNeeded(length) == Wrap16(SLOT_SIZE + RECORD_HEADER_SIZE + length)

\* Page::Page zeroes the buffer and writes the common header.
NewPage(pageId, type) ==
  Wr16(Wr16(Wr(<<>>, OffType, type), OffPageId, pageId % 65536), OffPageId + 2, pageId \div 65536)

NewDataPage(pageId) ==
  LET m0 == NewPage(pageId, PageTypeDATA)
      m1 == Wr16(m0, OffFreeSpaceOffset, PAGE_SIZE)
      m2 == Wr16(m1, OffFreeSpace, MAX_FREE_SPACE)
      m3 == Wr16(m2, OffFirstSlotOffset, DATA_HEADER_SIZE)
      m4 == Wr16(m3, OffFirstFreeSlot, INVALID_SLOT)
      m5 == Wr16(m4, OffSlotCount, 0)
  IN [mem |-> m5, fault |-> FALSE]

SlotsDirectory(i) == DATA_HEADER_SIZE + i * PAIR_SIZE

\* &slots()[i]: the array starts behind the directoryCount pairs of now.
Slots(m, i) == DATA_HEADER_SIZE + DirectoryCount(m) * PAIR_SIZE + i * SLOT_SIZE

FindFreeSlot(pg) ==
  LET m == pg.mem
      slotId == FirstFreeSlot(m)
      slotsOffset == Wrap16(DATA_HEADER_SIZE + DirectoryCount(m) * PAIR_SIZE)
      newSlotOffset == Wrap16(slotsOffset + SlotCount(m) * SLOT_SIZE)
  IN IF slotId # INVALID_SLOT
     THEN [pg |-> Store16(Touch(pg, Slots(m, slotId), 2), OffFirstFreeSlot,
                          Load16(pg, Slots(m, slotId))),
           ok |-> TRUE, slotId |-> slotId]
     ELSE IF newSlotOffset + SLOT_SIZE >= FreeSpaceOffset(m)
     THEN [pg |-> pg, ok |-> FALSE, slotId |-> INVALID_SLOT]
     ELSE [pg |-> Store16(pg, OffSlotCount, Wrap16(SlotCount(m) + 1)),
           ok |-> TRUE, slotId |-> SlotCount(m)]

InsertPair(pg, key, slotId) ==
  LET m == pg.mem
      newDirOffset == Wrap16(DATA_HEADER_SIZE + DirectoryCount(m) * PAIR_SIZE)
      a == SlotsDirectory(DirectoryCount(m))
      p1 == Store16(pg, a, key % 65536)
      p2 == Store16(p1, a + 2, key \div 65536)
      p3 == Store16(p2, a + 4, slotId)
  IN IF newDirOffset + PAIR_SIZE >= FreeSpaceOffset(m)
     THEN [pg |-> pg, ok |-> FALSE]
     ELSE [pg |-> Store16(p3, OffDirectoryCount, Wrap16(DirectoryCount(m) + 1)), ok |-> TRUE]

RemoveLastPair(pg) ==
  IF DirectoryCount(pg.mem) > 0
  THEN Store16(pg, OffDirectoryCount, DirectoryCount(pg.mem) - 1)
  ELSE pg

AllocateSpace(pg, size) ==
  LET m == pg.mem
      newOffset == Wrap16(FreeSpaceOffset(m) - size)
      slotsEnd == Wrap16(DATA_HEADER_SIZE + DirectoryCount(m) * PAIR_SIZE + SlotCount(m) * SLOT_SIZE)
  IN IF newOffset < slotsEnd
     THEN [pg |-> pg, ok |-> FALSE, offset |-> 0]
     ELSE [pg |-> Store16(pg, OffFreeSpaceOffset, newOffset), ok |-> TRUE, offset |-> newOffset]

\* The page after the call, whether it returned a slot ID, and the ID.
InsertRecord(pg, key, data, type) ==
  LET length == Len(data)
      recordSpace == SpaceNeeded(length)
      totalSpace == Wrap16(recordSpace + PAIR_SIZE)
      None(p) == [pg |-> p, ok |-> FALSE, slotId |-> INVALID_SLOT]
      fs == FindFreeSlot(pg)
      ip == InsertPair(fs.pg, key, fs.slotId)
      al == AllocateSpace(ip.pg, Wrap16(length + RECORD_HEADER_SIZE))
      p1 == Store16(al.pg, al.offset, length)
      p2 == Store16(p1, al.offset + 2, type)
      p3 == StoreBytes(p2, al.offset + RECORD_HEADER_SIZE, data)
      a == Slots(p3.mem, fs.slotId)
      p4 == Store16(p3, a, al.offset)
      p5 == Store16(p4, a + 2, Wrap16(length + RECORD_HEADER_SIZE))
      p6 == Store16(p5, a + 4, NONE)
      p7 == Store16(p6, OffFreeSpace, Wrap16(FreeSpace(p6.mem) - totalSpace))
      p8 == Store16(p7, OffItemCount, Wrap16(ItemCount(p7.mem) + 1))
  IN IF ~HasSpace(pg.mem, totalSpace) THEN None(pg)
     ELSE IF ~fs.ok THEN None(fs.pg)
     ELSE IF ~ip.ok THEN None(ip.pg)
     ELSE IF ~al.ok THEN None(RemoveLastPair(al.pg))
     ELSE [pg |-> p8, ok |-> TRUE, slotId |-> fs.slotId]

DeleteRecord(pg, slotId) ==
  LET m == pg.mem
      a == Slots(m, slotId)
      p1 == Store16(pg, a + 4, SetFlag(Rd16(m, a + 4), DELETED))
      p2 == Store16(p1, a, FirstFreeSlot(m))
      p3 == Store16(p2, OffFirstFreeSlot, slotId)
      p4 == Store16(p3, OffItemCount, Wrap16(ItemCount(p3.mem) - 1))
  IN IF slotId >= SlotCount(m) THEN [pg |-> pg, ok |-> FALSE]
     ELSE IF ~InPage(a, SLOT_SIZE) THEN [pg |-> Fault(pg), ok |-> FALSE]
     ELSE IF IsSet(Rd16(m, a + 4), DELETED) THEN [pg |-> pg, ok |-> FALSE]
     ELSE [pg |-> p4, ok |-> TRUE]

\* What getRecord returns: whether it is a value, the offset the returned
\* pointer points to, the returned length, and whether the call read
\* outside the buffer.
GetRecord(pg, slotId) ==
  LET m == pg.mem
      a == Slots(m, slotId)
      offset == Rd16(m, a)
      None(f) == [ok |-> FALSE, ptr |-> 0, length |-> 0, fault |-> f]
  IN IF slotId >= SlotCount(m) THEN None(FALSE)
     ELSE IF ~InPage(a, SLOT_SIZE) THEN None(TRUE)
     ELSE IF IsSet(Rd16(m, a + 4), DELETED) THEN None(FALSE)
     ELSE IF ~InPage(offset, RECORD_HEADER_SIZE) THEN None(TRUE)
     ELSE [ok |-> TRUE, ptr |-> offset + RECORD_HEADER_SIZE,
           length |-> Rd16(m, offset), fault |-> FALSE]

\* The n bytes a caller reads through the pointer getRecord returned.
RecordBytes(pg, ptr, n) ==
  IF InPage(ptr, n) THEN [i \in 1 .. n |-> Rd(pg.mem, ptr + i - 1)] ELSE <<>>

GetRecordType(pg, slotId) ==
  LET m == pg.mem
      a == Slots(m, slotId)
      offset == Rd16(m, a)
      None(f) == [ok |-> FALSE, type |-> 0, fault |-> f]
  IN IF slotId >= SlotCount(m) THEN None(FALSE)
     ELSE IF ~InPage(a, SLOT_SIZE) THEN None(TRUE)
     ELSE IF IsSet(Rd16(m, a + 4), DELETED) THEN None(FALSE)
     ELSE IF ~InPage(offset, RECORD_HEADER_SIZE) THEN None(TRUE)
     ELSE [ok |-> TRUE, type |-> Rd16(m, offset + 2), fault |-> FALSE]

GetSlotId(pg, key) ==
  LET m == pg.mem
      hits == {i \in 0 .. (DirectoryCount(m) - 1) :
                 Rd16(m, SlotsDirectory(i)) + 65536 * Rd16(m, SlotsDirectory(i) + 2) = key}
      first == CHOOSE i \in hits : \A j \in hits : i <= j
  IN IF ~InPage(SlotsDirectory(0), DirectoryCount(m) * PAIR_SIZE)
     THEN [ok |-> FALSE, slotId |-> INVALID_SLOT, fault |-> TRUE]
     ELSE IF hits = {} THEN [ok |-> FALSE, slotId |-> INVALID_SLOT, fault |-> FALSE]
     ELSE [ok |-> TRUE, slotId |-> Rd16(m, SlotsDirectory(first) + 4), fault |-> FALSE]

\* The first loop of compact from slot i on: live records are copied to
\* tempData downwards from writeOffset and their slots re-pointed.
RECURSIVE CompactCopy(_, _, _, _)
CompactCopy(pg, tempData, writeOffset, i) ==
  LET m == pg.mem
      a == Slots(m, i)
      offset == Rd16(m, a)
      length == Rd16(m, a + 2)
      to == Wrap16(writeOffset - length)
      Done(p) == [pg |-> p, tempData |-> tempData, writeOffset |-> writeOffset]
  IN IF i >= SlotCount(m) THEN Done(pg)
     ELSE IF ~InPage(a, SLOT_SIZE) THEN Done(Fault(pg))
     ELSE IF IsSet(Rd16(m, a + 4), DELETED) THEN CompactCopy(pg, tempData, writeOffset, i + 1)
     ELSE IF length > 0 /\ ~(InPage(to, length) /\ InPage(offset, length)) THEN Done(Fault(pg))
     ELSE CompactCopy(Store16(pg, a, to),
                      Blit(tempData, to, length, m, offset),
                      to, i + 1)

\* The second loop of compact from slot i on: the deleted slots are chained.
RECURSIVE RebuildFreeList(_, _, _)
RebuildFreeList(pg, lastFree, i) ==
  LET m == pg.mem
      a == Slots(m, i)
  IN IF i >= SlotCount(m) THEN pg
     ELSE IF ~InPage(a, SLOT_SIZE) THEN Fault(pg)
     ELSE IF ~IsSet(Rd16(m, a + 4), DELETED) THEN RebuildFreeList(pg, lastFree, i + 1)
     ELSE IF lastFree = INVALID_SLOT
     THEN RebuildFreeList(Store16(pg, OffFirstFreeSlot, i), i, i + 1)
     ELSE RebuildFreeList(Store16(pg, Slots(m, lastFree), i), i, i + 1)

Compact(pg) ==
  LET c == CompactCopy(pg, <<>>, PAGE_SIZE, 0)
      m == c.pg.mem
      bytesFreed == Wrap16(FreeSpaceOffset(m) - c.writeOffset)
      back == [c.pg EXCEPT !.mem = Blit(@, c.writeOffset, PAGE_SIZE - c.writeOffset,
                                        c.tempData, c.writeOffset)]
      p1 == Store16(back, OffFreeSpaceOffset, c.writeOffset)
      p2 == Store16(p1, OffFreeSpace, Wrap16(FreeSpace(p1.mem) + bytesFreed))
      moved == IF bytesFreed > 0 THEN p2 ELSE c.pg
  IN IF c.pg.fault THEN [pg |-> c.pg, bytesFreed |-> 0]
     ELSE [pg |-> RebuildFreeList(Store16(moved, OffFirstFreeSlot, INVALID_SLOT), INVALID_SLOT, 0),
           bytesFreed |-> bytesFreed]

RECURSIVE ActualData(_, _, _)
\* The loop of needsCompact: actualData, a uint16_t, after the slots from i on.
ActualData(m, i, actualData) ==
  IF i >= SlotCount(m) THEN actualData
  ELSE ActualData(m, i + 1,
                  IF IsSet(Rd16(m, Slots(m, i) + 4), DELETED) THEN actualData
                  ELSE Wrap16(actualData + Rd16(m, Slots(m, i) + 2)))

\* The subtraction and the product are made in int.
NeedsCompact(pg) ==
  LET m == pg.mem
      usedSpace == Wrap16(PAGE_SIZE - FreeSpace(m))
      actualData == ActualData(m, 0, Wrap16(ItemCount(m) * RECORD_HEADER_SIZE))
  IN [ok |-> usedSpace > 0 /\ (usedSpace - actualData) * 4 > usedSpace,
      fault |-> ~InPage(Slots(m, 0), SlotCount(m) * SLOT_SIZE)]

(***************************************************************************)
(* DiskManager at byte level (src/storage/disk_manager.cpp).  The database *)
(* file is its length and its non-zero bytes by offset: the packed         *)
(* DatabaseHeader at offset 0, the 4096-byte image of page i at            *)
(* getOffset(i).  A page is the non-zero bytes of its buffer by address.   *)
(* A disk-manager value d holds dirty, header.pageCount, freePages and     *)
(* the file.  An open, read or write of the file can fail.                 *)
(***************************************************************************)
PAGE_HEADER_SIZE == 13
PAGE_DATA_SIZE == PAGE_SIZE - PAGE_HEADER_SIZE
INDEX_HEADER_SIZE == 28
PageTypeINDEX == 1
PageTypeSPECIAL == 3
OffIsLeaf == 13
OffLevel == 26

DB_HEADER_SIZE == 28
DB_MAGIC == 5260354
DB_VERSION == 1
\* INVALID_PAGE_ID = 0xDEADBEEF, as its low and high 16 bits.
INVALID_PAGE_ID_LOW == 48879
INVALID_PAGE_ID_HIGH == 57005
OffDbMagic == 0
OffDbVersion == 4
OffDbPageSize == 8
OffDbPageCount == 12
OffDbFirstFreePage == 16

Rd32(m, a) == Rd16(m, a) + 65536 * Rd16(m, a + 2)

Wr32(m, a, v) == Wr16(Wr16(m, a, v % 65536), a + 2, (v \div 65536) % 65536)

Max(a, b) == IF a >= b THEN a ELSE b

\* memcpy, or a read or write of n bytes of a file: the n bytes of m at
\* dst become the n bytes of s at from.
Memcpy(m, dst, n, s, from) ==
  LET keep == {x \in DOMAIN m : x < dst \/ x >= dst + n}
      copied == {a - from + dst : a \in {b \in DOMAIN s : b >= from /\ b < from + n}}
  IN [x \in keep \cup copied |-> IF x >= dst /\ x < dst + n THEN s[x - dst + from] ELSE m[x]]

\* The bytes of the DatabaseHeader of an instance with the given pageCount:
\* the other fields are set by initializeDatabase and never change.
HeaderBytes(count) ==
  Wr16(Wr16(Wr32(Wr32(Wr32(Wr32(<<>>, OffDbMagic, DB_MAGIC), OffDbVersion, DB_VERSION),
                      OffDbPageSize, PAGE_SIZE),
                 OffDbPageCount, count),
            OffDbFirstFreePage, INVALID_PAGE_ID_LOW),
       OffDbFirstFreePage + 2, INVALID_PAGE_ID_HIGH)

\* Mutant of GetOffset: the page images start at offset 0.
GetOffset_FromZero(pageId) == pageId * PAGE_SIZE

GetOffset(pageId) == DB_HEADER_SIZE + pageId * PAGE_SIZE

WriteHeader(d, ioOk) ==
  IF ~ioOk
    THEN [ok |-> FALSE, d |-> d]
    ELSE [ok |-> TRUE,
          d |-> [d EXCEPT !.file =
                   [len |-> Max(@.len, DB_HEADER_SIZE),
                    bytes |-> Memcpy(@.bytes, 0, DB_HEADER_SIZE, HeaderBytes(d.pageCount), 0)]]]

\* The file initializeDatabase leaves: the header of an empty database.
NewFile == [len |-> DB_HEADER_SIZE, bytes |-> HeaderBytes(0)]

\* ok is false where readHeader throws.
ReadHeader(f, ioOk) ==
  [ok |-> /\ ioOk
          /\ f.len >= DB_HEADER_SIZE
          /\ Rd32(f.bytes, OffDbMagic) = DB_MAGIC
          /\ Rd32(f.bytes, OffDbVersion) = DB_VERSION
          /\ Rd32(f.bytes, OffDbPageSize) = PAGE_SIZE,
   pageCount |-> Rd32(f.bytes, OffDbPageCount)]

\* DiskManager::DiskManager(path, create = false) on the file f.
DmOpen(f, ioOk) ==
  LET h == ReadHeader(f, ioOk)
  IN [ok |-> h.ok,
      d |-> [dirty |-> FALSE, pageCount |-> h.pageCount, freePages |-> <<>>, file |-> f]]

DmAllocatePage(d) ==
  LET a == AllocatePage(d)
  IN [id |-> a.id, d |-> [a.d EXCEPT !.dirty = TRUE]]

DmDeallocatePage(d, pageId) ==
  LET r == DeallocatePage(d, pageId)
  IN [ok |-> r.ok, d |-> IF r.ok THEN [r.d EXCEPT !.dirty = TRUE] ELSE r.d]

PageTypeOf(page) == Rd(page, OffType)

PageIdOf(page) == Rd32(page, OffPageId)

NewIndexPage(pageId, isLeaf, level) ==
  Wr16(Wr16(Wr(NewPage(pageId, PageTypeINDEX), OffIsLeaf, isLeaf), OffLevel, level),
       OffFreeSpace, PAGE_SIZE - INDEX_HEADER_SIZE)

DmFlushPage(d, page, ioOk) ==
  IF ~ioOk
    THEN [ok |-> FALSE, d |-> d]
    ELSE LET offset == GetOffset(PageIdOf(page))
         IN [ok |-> TRUE,
             d |-> [d EXCEPT !.file =
                      [len |-> Max(@.len, offset + PAGE_SIZE),
                       bytes |-> Memcpy(@.bytes, offset, PAGE_SIZE, page, 0)]]]

\* Mutant of CopyImage: only the data portion is copied into the page.
CopyImage_DataOnly(page, buffer) ==
  Memcpy(page, PAGE_HEADER_SIZE, PAGE_DATA_SIZE, buffer, PAGE_HEADER_SIZE)

\* The two memcpy of fetchPage: the header portion, then the data portion.
CopyImage(page, buffer) ==
  Memcpy(Memcpy(page, 0, PAGE_HEADER_SIZE, buffer, 0),
         PAGE_HEADER_SIZE, PAGE_DATA_SIZE, buffer, PAGE_HEADER_SIZE)

\* ok is false where fetchPage returns nullptr.
DmFetchPage(d, pageId, ioOk) ==
  LET offset == GetOffset(pageId)
      buffer == Memcpy(<<>>, 0, PAGE_SIZE, d.file.bytes, offset)
      type == Rd(buffer, 0)
      made == IF type = PageTypeDATA
                THEN NewDataPage(pageId).mem
                ELSE NewIndexPage(pageId, Rd(buffer, OffIsLeaf), Rd16(buffer, OffLevel))
  IN IF pageId >= d.pageCount \/ ~ioOk \/ offset + PAGE_SIZE > d.file.len
          \/ type \notin {PageTypeDATA, PageTypeINDEX}
       THEN [ok |-> FALSE, page |-> <<>>]
       ELSE [ok |-> TRUE, page |-> CopyImage(made, buffer)]

DmSync(d, writeOk, openOk) ==
  LET w == WriteHeader(d, writeOk)
      d1 == IF d.dirty THEN w.d ELSE d
  IN IF d.dirty /\ ~w.ok THEN [ok |-> FALSE, d |-> d]
     ELSE IF ~openOk THEN [ok |-> FALSE, d |-> d1]
     ELSE [ok |-> TRUE, d |-> [d1 EXCEPT !.dirty = FALSE]]

\* The file the destructor leaves.
DmDestroy(d, firstOk, writeOk, openOk) ==
  IF d.dirty
    THEN DmSync(WriteHeader(d, firstOk).d, writeOk, openOk).d.file
    ELSE d.file

DiskM == [dirty |-> dirty, pageCount |-> pageCount, freePages |-> freePages, file |-> dbfile]

(***************************************************************************)
(* IndexPage (src/storage/index_page.cpp, include/pulsedb/storage/         *)
(* index_page.hpp): a B+ tree node.  After the 28-byte IndexHeader lies    *)
(* the array of packed 14-byte IndexEntry{key, pageId, offset}.  A node    *)
(* value holds the header fields and the entry array as far as it was      *)
(* written, entries[k] being array element k - 1; elements never written   *)
(* are zero.  fault: a call accessed memory outside the 4096-byte page.    *)
(***************************************************************************)
INDEX_ENTRY_SIZE == 14
INDEX_MAX_FREE_SPACE == PAGE_SIZE - INDEX_HEADER_SIZE

maxEntries == INDEX_MAX_FREE_SPACE \div INDEX_ENTRY_SIZE

ZeroEntry == [key |-> 0, pageId |-> 0, offset |-> 0]

IndexPage(pageId, isLeaf, level) ==
  [id |-> pageId, isLeaf |-> isLeaf, level |-> level,
   nextPageId |-> 0, prevPageId |-> 0, parentId |-> 0,
   itemCount |-> 0, freeSpace |-> INDEX_MAX_FREE_SPACE,
   entries |-> <<>>, fault |-> FALSE]

\* entries()[i]
EntryAt(node, i) == IF i < Len(node.entries) THEN node.entries[i + 1] ELSE ZeroEntry

\* The n array elements from element i on.
EntriesFrom(node, i, n) ==
  IF i + n <= Len(node.entries)
  THEN SubSeq(node.entries, i + 1, i + n)
  ELSE [k \in 1 .. n |-> EntryAt(node, i + k - 1)]

\* Array elements i .. i + n - 1 lie inside the page.
EntriesInPage(i, n) == INDEX_HEADER_SIZE + (i + n) * INDEX_ENTRY_SIZE <= PAGE_SIZE

\* memcpy or memmove of the entries es to array element i and those after it.
WriteEntries(node, i, es) ==
  LET old == node.entries
      before == IF i <= Len(old) THEN SubSeq(old, 1, i)
                ELSE old \o [k \in 1 .. (i - Len(old)) |-> ZeroEntry]
      after == IF i + Len(es) < Len(old) THEN SubSeq(old, i + Len(es) + 1, Len(old)) ELSE <<>>
  IN IF es = <<>> THEN node
     ELSE IF ~EntriesInPage(i, Len(es)) THEN [node EXCEPT !.fault = TRUE]
     ELSE [node EXCEPT !.entries = before \o es \o after]

RECURSIVE LowerBound(_, _, _, _)
\* std::lower_bound on the entries first .. first + len - 1, by key.
LowerBound(node, first, len, key) ==
  LET half == len \div 2
      middle == first + half
  IN IF len <= 0 THEN first
     ELSE IF EntryAt(node, middle).key < key
     THEN LowerBound(node, middle + 1, len - half - 1, key)
     ELSE LowerBound(node, first, half, key)

FindInsertPosition(node, key) == LowerBound(node, 0, node.itemCount, key)

\* What lookup(key) returns: found is FALSE for std::nullopt.
Lookup(node, key) ==
  LET n == node.itemCount
      it == LowerBound(node, 0, n, key)
  IN IF it # n /\ EntryAt(node, it).key = key
     THEN [found |-> TRUE, pageId |-> EntryAt(node, it).pageId]
     ELSE IF node.isLeaf THEN [found |-> FALSE, pageId |-> 0]
     ELSE IF it = 0 THEN [found |-> TRUE, pageId |-> EntryAt(node, 0).pageId]
     ELSE [found |-> TRUE, pageId |-> EntryAt(node, it - 1).pageId]

\* Mutant of InsertKey: the new entry is written at the end of the array.
InsertKey_Appends(node, key, pageId) ==
  IF node.freeSpace < INDEX_ENTRY_SIZE THEN [pg |-> node, ok |-> FALSE]
  ELSE [pg |-> [WriteEntries(node, node.itemCount,
                             <<[key |-> key, pageId |-> pageId, offset |-> 0]>>)
                  EXCEPT !.itemCount = Wrap16(@ + 1),
                         !.freeSpace = Wrap16(@ - INDEX_ENTRY_SIZE)],
        ok |-> TRUE]

\* The node after the call and what the call returned.
InsertKey(node, key, pageId) ==
  LET pos == FindInsertPosition(node, key)
      shifted == WriteEntries(node, pos + 1, EntriesFrom(node, pos, node.itemCount - pos))
      written == WriteEntries(shifted, pos, <<[key |-> key, pageId |-> pageId, offset |-> 0]>>)
  IN IF node.freeSpace < INDEX_ENTRY_SIZE THEN [pg |-> node, ok |-> FALSE]
     ELSE [pg |-> [written EXCEPT !.itemCount = Wrap16(@ + 1),
                                  !.freeSpace = Wrap16(@ - INDEX_ENTRY_SIZE)],
           ok |-> TRUE]

RemoveKey(node, key) ==
  LET n == node.itemCount
      it == LowerBound(node, 0, n, key)
      shifted == WriteEntries(node, it, EntriesFrom(node, it + 1, n - it - 1))
  IN IF it = n \/ EntryAt(node, it).key # key THEN [pg |-> node, ok |-> FALSE]
     ELSE [pg |-> [shifted EXCEPT !.itemCount = Wrap16(@ - 1),
                                  !.freeSpace = Wrap16(@ + INDEX_ENTRY_SIZE)],
           ok |-> TRUE]

\* Mutant of Split: the lower half is copied to newPage.
Split_CopiesLowerHalf(node, newPage) ==
  LET middle == node.itemCount \div 2
      numEntries == node.itemCount - middle
      copied == WriteEntries(newPage, 0, EntriesFrom(node, 0, numEntries))
  IN [pg |-> [node EXCEPT !.nextPageId = newPage.id,
                          !.itemCount = middle,
                          !.freeSpace = Wrap16(@ + numEntries * INDEX_ENTRY_SIZE)],
      newPage |-> [copied EXCEPT !.nextPageId = node.nextPageId,
                                 !.prevPageId = node.id,
                                 !.itemCount = numEntries,
                                 !.freeSpace = Wrap16(@ - numEntries * INDEX_ENTRY_SIZE)],
      key |-> EntryAt(node, middle).key]

\* this and newPage after this.split(newPage), and the median key returned.
Split(node, newPage) ==
  LET middle == node.itemCount \div 2
      numEntries == node.itemCount - middle
      copied == WriteEntries(newPage, 0, EntriesFrom(node, middle, numEntries))
  IN [pg |-> [node EXCEPT !.nextPageId = newPage.id,
                          !.itemCount = middle,
                          !.freeSpace = Wrap16(@ + numEntries * INDEX_ENTRY_SIZE)],
      newPage |-> [copied EXCEPT !.nextPageId = node.nextPageId,
                                 !.prevPageId = node.id,
                                 !.itemCount = numEntries,
                                 !.freeSpace = Wrap16(@ - numEntries * INDEX_ENTRY_SIZE)],
      key |-> EntryAt(node, middle).key]

\* Mutant of Merge: the right sibling's next link is not taken over.
Merge_KeepsNext(node, rightSibling) ==
  LET totalEntries == node.itemCount + rightSibling.itemCount
      copied == WriteEntries(node, node.itemCount,
                             EntriesFrom(rightSibling, 0, rightSibling.itemCount))
  IN IF totalEntries > maxEntries THEN [pg |-> node, ok |-> FALSE]
     ELSE [pg |-> [copied EXCEPT !.itemCount = totalEntries,
                                 !.freeSpace = Wrap16(@ - rightSibling.itemCount * INDEX_ENTRY_SIZE)],
           ok |-> TRUE]

\* this after this.merge(rightSibling), which is left as it was.
Merge(node, rightSibling) ==
  LET totalEntries == node.itemCount + rightSibling.itemCount
      copied == WriteEntries(node, node.itemCount,
                             EntriesFrom(rightSibling, 0, rightSibling.itemCount))
  IN IF totalEntries > maxEntries THEN [pg |-> node, ok |-> FALSE]
     ELSE [pg |-> [copied EXCEPT !.nextPageId = rightSibling.nextPageId,
                                 !.itemCount = totalEntries,
                                 !.freeSpace = Wrap16(@ - rightSibling.itemCount * INDEX_ENTRY_SIZE)],
           ok |-> TRUE]

RECURSIVE InsertKeys(_, _, _)
\* for (; i < n; ++i) insertKey(i * 10, i * 100), as the tests fill
\* a node; hit: one of the keys was in the node when it was inserted.
\* (The range is halved, the lower half first, to keep the evaluation flat.)
InsertKeys(r, i, n) ==
  LET pos == FindInsertPosition(r.pg, i * 10)
      held == pos < r.pg.itemCount /\ EntryAt(r.pg, pos).key = i * 10
      half == i + (n - i) \div 2
      lower == InsertKeys(r, i, half)
  IN IF i >= n THEN r
     ELSE IF n = i + 1
     THEN [pg |-> InsertKey(r.pg, i * 10, i * 100).pg, hit |-> r.hit \/ held]
     ELSE IF lower.hit \in BOOLEAN THEN InsertKeys(lower, half, n) ELSE lower

\* Two nodes just constructed, as IndexPage(1, true) and IndexPage(2, true),
\* and no call made.  calls, fills: the numbers of single calls and of
\* filling loops made; dup: an insertKey was given a key its node held;
\* moved: split or merge was called.
NoIndex ==
  [pages |-> [p \in 1 .. MaxIndexPages |-> IndexPage(p, TRUE, 0)],
   calls |-> 0, fills |-> 0, dup |-> FALSE, moved |-> FALSE]

(***************************************************************************)
(* PageHeap: pages is the array of capacity elements, an element never     *)
(* written being Unwritten; fault: a call read an element never written or *)
(* accessed an element outside the array.                                  *)
(***************************************************************************)
Unwritten == -1

PageHeap(capacity) ==
  [pages |-> [i \in 1 .. capacity |-> Unwritten], capacity |-> capacity,
   heapSize |-> 0, fault |-> FALSE]

\* pages[i] can be read: it lies in the array and was written.
Readable(h, i) == i >= 0 /\ i < h.capacity /\ h.pages[i + 1] # Unwritten

PagesAt(h, i) == IF Readable(h, i) THEN h.pages[i + 1] ELSE Unwritten

\* pages[i] = v
PagesPut(h, i, v) ==
  IF i >= 0 /\ i < h.capacity THEN [h EXCEPT !.pages[i + 1] = v] ELSE [h EXCEPT !.fault = TRUE]

RECURSIVE SiftUpLoop(_, _, _)
\* The loop of siftUp and the store after it.
SiftUpLoop(h, at, element) ==
  LET parent == (at - 1) \div 2
  IN IF at > 0
     THEN IF ~Readable(h, parent) THEN [h EXCEPT !.fault = TRUE]
          ELSE IF PagesAt(h, parent) <= element THEN PagesPut(h, at, element)
          ELSE SiftUpLoop(PagesPut(h, at, PagesAt(h, parent)), parent, element)
     ELSE PagesPut(h, at, element)

SiftUp(h, at) ==
  IF ~Readable(h, at) THEN [h EXCEPT !.fault = TRUE]
  ELSE SiftUpLoop(h, at, PagesAt(h, at))

\* index <= lastParent, where lastParent = (heapSize - 2) >> 1 in size_t:
\* for heapSize < 2 the subtraction wraps and lastParent is 2^63 - 1.
UpToLastParent(h, at) == h.heapSize < 2 \/ at <= (h.heapSize - 2) \div 2

RECURSIVE SiftDownLoop(_, _, _)
\* The loop of siftDown and the store after it.
SiftDownLoop(h, at, element) ==
  LET leftChild == 2 * at + 1
      rightChild == leftChild + 1
      rightRead == rightChild < h.heapSize
      minChild == IF rightRead /\ PagesAt(h, rightChild) < PagesAt(h, leftChild)
                  THEN rightChild ELSE leftChild
  IN IF UpToLastParent(h, at)
     THEN IF (rightRead /\ ~(Readable(h, rightChild) /\ Readable(h, leftChild)))
               \/ ~Readable(h, minChild)
          THEN [h EXCEPT !.fault = TRUE]
          ELSE IF element <= PagesAt(h, minChild) THEN PagesPut(h, at, element)
          ELSE SiftDownLoop(PagesPut(h, at, PagesAt(h, minChild)), minChild, element)
     ELSE PagesPut(h, at, element)

SiftDown(h, at) ==
  IF ~Readable(h, at) THEN [h EXCEPT !.fault = TRUE]
  ELSE SiftDownLoop(h, at, PagesAt(h, at))

\* A new array of twice the capacity with the heapSize elements copied.
Resize(h) ==
  [h EXCEPT !.capacity = 2 * h.capacity,
            !.pages = [i \in 1 .. (2 * h.capacity) |->
                         IF i <= h.heapSize THEN h.pages[i] ELSE Unwritten]]

Insert(h, pageId) ==
  LET grown == IF h.heapSize = h.capacity THEN Resize(h) ELSE h
      stored == PagesPut(grown, grown.heapSize, pageId)
  IN IF stored.fault THEN stored
     ELSE SiftUp([stored EXCEPT !.heapSize = @ + 1], grown.heapSize)

Minimum(h) == PagesAt(h, 0)

\* The heap after extractMin() and the page ID returned.
ExtractMin(h) ==
  LET min == PagesAt(h, 0)
      size == h.heapSize - 1
      moved == PagesPut([h EXCEPT !.heapSize = size], 0, PagesAt(h, size))
  IN IF ~Readable(h, 0) \/ ~Readable(h, size)
     THEN [h |-> [h EXCEPT !.fault = TRUE], min |-> min]
     ELSE [h |-> IF size > 0 THEN SiftDown(moved, 0) ELSE moved, min |-> min]

HeapIds == 0 .. MaxHeapId

\* No PageHeap constructed yet.  made: a PageHeap has been constructed;
\* held: how many copies of each page ID were inserted and not extracted;
\* inserts, extracts: the numbers of calls made.
NoHeap ==
  [h |-> PageHeap(0), made |-> FALSE, held |-> [id \in HeapIds |-> 0], inserts |-> 0, extracts |-> 0]

(***************************************************************************)
(* The state machine of the pool: one action per public operation.         *)
(***************************************************************************)
Init ==
  /\ poolSize \in 1 .. MaxPool
  /\ frames = [i \in 0 .. (poolSize - 1) |-> NewFrame]
  /\ pageTable = [p \in PageIds |-> NoFrame]
  /\ frameList = <<>>
  /\ frameMap = {}
  /\ pageCount = 0
  /\ freePages = <<>>
  /\ file = [p \in 0 .. (MaxPages - 1) |-> NoImage]
  /\ last = [op |-> "init", why |-> "init", victim |-> NoFrame, evicted |-> NoPageId]
  /\ scen = [phase |-> "fill", made |-> <<>>, unp |-> <<>>, res |-> "none", pend |-> NoPageId]
  /\ mem = NewDataPage(1).mem
  /\ fault = FALSE
  /\ live = <<>>
  /\ calls = [insert |-> 0, delete |-> 0, compact |-> 0]
  /\ thr = NoThreads
  /\ hist = <<>>
  /\ dirty = FALSE
  /\ dbfile = NewFile
  /\ dm = NoCalls
  /\ pins = NoPins
  /\ mutex = NoOwner
  /\ index = NoIndex
  /\ heap = NoHeap

\* works: o is the outcome of the call when the disk works and, for
\* unpinPage, when dirty = false is passed.
ApplyCall(op, arg, o, works) ==
  /\ frames' = o.s.frames
  /\ pageTable' = o.s.pageTable
  /\ frameList' = o.s.rep.list
  /\ frameMap' = o.s.rep.map
  /\ pageCount' = o.s.disk.pageCount
  /\ freePages' = o.s.disk.freePages
  /\ file' = o.s.disk.file
  /\ last' = [op |-> op, why |-> o.why, victim |-> o.victim, evicted |-> o.evicted]
  /\ scen' = ScenNext(scen, poolSize, op, arg, o, works)
  /\ UNCHANGED <<poolSize, dataVars, callVars, moreVars>>

Apply(op, arg, o, works) ==
  /\ ApplyCall(op, arg, o, works)
  /\ UNCHANGED thr

Resident(p) == pageTable[p] # NoFrame

\* The outcomes a call can have in the current state, over the results of
\* the disk reads and writes it makes and over what a freed map node holds.
FetchOutcomes(pageId) ==
  {FetchPageOp(Pool, pageId, readOk, flushOk) : readOk \in BOOLEAN, flushOk \in BOOLEAN}

CreateOutcomes(type) ==
  {CreatePageOp(Pool, type, flushOk) : flushOk \in BOOLEAN}

DeleteOutcomes(pageId) ==
  {DeletePageOp(Pool, pageId, readIdx) : readIdx \in 0 .. poolSize}

UnpinOutcomes(pageId) ==
  {UnpinPageOp(Pool, pageId, isDirty) : isDirty \in BOOLEAN}

FlushOutcomes(pageId) ==
  {FlushPageOp(Pool, pageId, ioOk) : ioOk \in BOOLEAN}

FlushAllOutcomes ==
  {FlushAllOp(Pool, failed) :
     failed \in SUBSET {p \in PageIds : Resident(p) /\ frames[pageTable[p]].dirty}}

fetchPage(pageId) ==
  /\ Resident(pageId) => frames[pageTable[pageId]].pinCount < MaxPin
  /\ \E o \in FetchOutcomes(pageId) : Apply("fetchPage", pageId, o, o = FetchPageOp(Pool, pageId, TRUE, TRUE))

createPage(type) ==
  /\ freePages # <<>> \/ pageCount < MaxPages
  /\ \E o \in CreateOutcomes(type) : Apply("createPage", NoPageId, o, o = CreatePageOp(Pool, type, TRUE))

deletePage(pageId) ==
  /\ Len(freePages) < MaxFree
  /\ \E o \in DeleteOutcomes(pageId) : Apply("deletePage", pageId, o, FALSE)

unpinPage(pageId) ==
  \E o \in UnpinOutcomes(pageId) : Apply("unpinPage", pageId, o, o = UnpinPageOp(Pool, pageId, FALSE))

flushPage(pageId) ==
  \E o \in FlushOutcomes(pageId) : Apply("flushPage", pageId, o, FALSE)

flushAll ==
  \E o \in FlushAllOutcomes : Apply("flushAll", NoPageId, o, FALSE)

Next ==
  \/ \E pageId \in PageIds : fetchPage(pageId)
  \/ \E type \in CreateTypes : createPage(type)
  \/ \E pageId \in PageIds : deletePage(pageId)
  \/ \E pageId \in PageIds : unpinPage(pageId)
  \/ \E pageId \in PageIds : flushPage(pageId)
  \/ flushAll

Spec == Init /\ [][Next]_vars

TypeOK ==
  /\ poolSize \in 1 .. MaxPool
  /\ DOMAIN frames = FrameIdx
  /\ \A f \in FrameIdx :
       /\ frames[f].pinCount \in 0 .. MaxPin
       /\ frames[f].dirty \in BOOLEAN
       /\ frames[f].page # NullPage =>
            frames[f].page.id = frames[f].pageId /\ frames[f].page.type \in Types
  /\ \A p \in PageIds : pageTable[p] \in FrameIdx \cup {NoFrame}
  /\ \A p \in PageIds : Resident(p) => frames[pageTable[p]].page # NullPage
  /\ pageCount \in 0 .. MaxPages
  /\ Len(freePages) <= MaxFree

(***************************************************************************)
(* Properties of the pool.  A property of a call is stated over the        *)
(* outcomes the call can have in the state reached.                        *)
(***************************************************************************)
FetchCreateOutcomes ==
  UNION {FetchOutcomes(p) : p \in PageIds} \cup UNION {CreateOutcomes(t) : t \in CreateTypes}

AllOutcomes ==
  FetchCreateOutcomes
    \cup UNION {DeleteOutcomes(p) \cup UnpinOutcomes(p) \cup FlushOutcomes(p) : p \in PageIds}
    \cup FlushAllOutcomes

Pinned(f) == frames[f].page # NullPage /\ frames[f].pinCount > 0

\* C1: no call chooses a frame with a positive pin count as its victim, and
\* no call resets such a frame or takes its page away: the page of a pinned
\* frame stays installed.
C1_PinnedFrameKept ==
  \A o \in AllOutcomes :
    /\ o.victim # NoFrame => frames[o.victim].pinCount = 0
    /\ \A f \in FrameIdx :
         Pinned(f) => f \notin o.reset /\ o.s.frames[f].page = frames[f].page

\* A frame is pinned while another frame's page has just been evicted.
C1_Witness ==
  /\ last.why \in {"miss", "new"}
  /\ last.evicted # NoPageId
  /\ \E f \in FrameIdx : f # last.victim /\ Pinned(f)

\* C2: when fetchPage or createPage turns to a victim frame that is dirty,
\* the frame is reset and leaves the page table only after its page has been
\* written to the file; when the write fails the frame keeps its page, stays
\* dirty, and the page table is as before.
C2_DirtyEvictionFlushed ==
  \A o \in FetchCreateOutcomes :
    (o.victim # NoFrame /\ frames[o.victim].page # NullPage /\ frames[o.victim].dirty) =>
      /\ o.victim \in o.reset =>
           /\ o.flush = "ok"
           /\ o.s.disk.file[frames[o.victim].pageId] = frames[o.victim].page
      /\ o.flush = "fail" =>
           /\ o.s.frames[o.victim] = frames[o.victim]
           /\ o.s.pageTable = pageTable

\* A dirty page has just been evicted and its image is in the file.
C2_Witness ==
  /\ last.why \in {"miss", "new"}
  /\ last.evicted # NoPageId
  /\ file[last.evicted].type \in Types
  /\ ~Resident(last.evicted)

\* C3: every frame that holds a page is the page-table entry of that page's
\* ID, and every page-table entry points to a frame that holds the page of
\* that ID.
C3_PageTableExact ==
  /\ \A f \in FrameIdx :
       frames[f].page # NullPage => pageTable[frames[f].page.id] = f
  /\ \A p \in PageIds :
       Resident(p) => frames[pageTable[p]].page # NullPage /\ frames[pageTable[p]].page.id = p

\* C4: a frame index is in the replacer iff the frame holds a page and its
\* pin count is zero.
C4_ReplacerExact ==
  \A f \in FrameIdx :
    f \in frameMap <=> (frames[f].page # NullPage /\ frames[f].pinCount = 0)

PoolPart(s) == [frames |-> s.frames, pageTable |-> s.pageTable, rep |-> s.rep]

\* C5: a fetchPage that returns nothing because the read failed or because
\* the victim could not be evicted leaves frames, page table and replacer as
\* they were.
C5_FailedFetchNoChange ==
  \A p \in PageIds : \A o \in FetchOutcomes(p) :
    o.why \in {"read", "evict"} => PoolPart(o.s) = PoolPart(Pool)

AllPinned == \A f \in FrameIdx : Pinned(f)

\* C9: when every frame holds a pinned page, createPage and fetchPage of a
\* page that is not resident return nothing and leave every frame and the
\* page table as they were.
C9_AllPinnedRefuses ==
  AllPinned =>
    \A o \in UNION {FetchOutcomes(p) : p \in {q \in PageIds : ~Resident(q)}}
               \cup UNION {CreateOutcomes(t) : t \in CreateTypes} :
      /\ ~o.ok
      /\ o.s.frames = frames
      /\ o.s.pageTable = pageTable

\* Every frame is pinned and a createPage or a fetchPage has just been
\* refused for want of a frame.
C9_Witness ==
  /\ AllPinned
  /\ last.why = "novictim"
  /\ poolSize > 1

\* C10: a page ID on the free list (deletePage returned true for it and no
\* createPage has handed it out since) cannot be fetched.
C10_DeletedNotFetched ==
  \A i \in 1 .. Len(freePages) : \A o \in FetchOutcomes(freePages[i]) : ~o.ok

InFile(p) == p \in DOMAIN file /\ file[p].type \in Types

\* The page-replacement test, as far as the calls have followed it: while the
\* pool is filled every page created is resident and dirty; the createPage
\* that follows succeeds and evicts the page unpinned first, whose image is
\* then in the file; every fetchPage of one of the first pages succeeds.
ReplacementTest ==
  /\ scen.phase = "fill" =>
       \A p \in SeqRange(scen.made) : Resident(p) /\ frames[pageTable[p]].dirty
  /\ scen.phase = "extra" =>
       /\ scen.res = "ok"
       /\ last.evicted = scen.unp[1]
       /\ InFile(last.evicted)
  /\ scen.phase = "after" => scen.res = "ok"

\* C8 as stated, for a pool of any size N >= 1.
C8_RefetchAfterReplacement == ReplacementTest

\* C8 as amended: in a pool of N >= 2 frames.
C8_RefetchAfterReplacement_N2 == poolSize >= 2 => ReplacementTest

\* One of the first pages has been read back from the file after the
\* replacement, in a pool of two frames or more.
C8_Witness ==
  /\ poolSize >= 2
  /\ scen.phase = "after"
  /\ scen.res = "ok"
  /\ last.why = "miss"
  /\ last.evicted # NoPageId

\* C11: deletePage of a resident page with a positive pin count returns
\* false and leaves frames, page table, replacer and the disk's free-page
\* list as they were; of a resident page with pin count zero it returns
\* true, empties the page's frame and removes the page from the page table.
C11_PinnedDeleteRefused ==
  \A p \in PageIds : \A o \in DeleteOutcomes(p) :
    Resident(p) =>
      IF frames[pageTable[p]].pinCount > 0
      THEN ~o.ok /\ o.s = Pool
      ELSE /\ o.ok
           /\ o.s.frames[pageTable[p]].page = NullPage
           /\ o.s.pageTable[p] = NoFrame

\* deletePage has just been refused for a page that is resident and pinned.
C11_Witness ==
  /\ last.op = "deletePage"
  /\ last.why = "pinned"
  /\ \E p \in PageIds : Resident(p) /\ frames[pageTable[p]].pinCount > 0

\* C14: when flushAll (which the destructor of the pool also runs) returns
\* and no write failed, every frame that held a dirty page has had that page
\* written to the file, and no frame that holds a page is dirty.
C14_FlushAllCleans ==
  LET o == FlushAllOp(Pool, {})
  IN \A f \in FrameIdx :
       frames[f].page # NullPage =>
         /\ ~o.s.frames[f].dirty
         /\ frames[f].dirty => o.s.disk.file[frames[f].page.id] = frames[f].page

(***************************************************************************)
(* The state machine of one DataPage: one action per public operation      *)
(* that changes the page.  After a call with undefined behaviour nothing   *)
(* more is said about the page.                                            *)
(***************************************************************************)
Page == [mem |-> mem, fault |-> fault]

\* live' after a call of insertRecord: the records a later insertRecord
\* with another key must leave readable, and the new one at its slot.
LiveInsert(lv, rec, r) ==
  LET keep == {s \in DOMAIN lv : lv[s].key # rec.key}
  IN IF r.ok
     THEN [s \in keep \cup {r.slotId} |-> IF s = r.slotId THEN rec ELSE lv[s]]
     ELSE [s \in keep |-> lv[s]]

LiveDelete(lv, slotId) == [s \in (DOMAIN lv) \ {slotId} |-> lv[s]]

ApplyPage(pg) ==
  /\ mem' = pg.mem
  /\ fault' = pg.fault
  /\ UNCHANGED <<poolVars, diskVars, last, scen, thr, callVars, moreVars>>

insertRecord(rec) ==
  /\ ~fault
  /\ calls.insert < MaxInserts
  /\ LET r == InsertRecord(Page, rec.key, rec.data, rec.type)
     IN /\ ApplyPage(r.pg)
        /\ live' = LiveInsert(live, rec, r)
  /\ calls' = [calls EXCEPT !.insert = @ + 1]

deleteRecord(slotId) ==
  /\ ~fault
  /\ calls.delete < MaxDeletes
  /\ ApplyPage(DeleteRecord(Page, slotId).pg)
  /\ live' = LiveDelete(live, slotId)
  /\ calls' = [calls EXCEPT !.delete = @ + 1]

compact ==
  /\ ~fault
  /\ calls.compact < MaxCompacts
  /\ ApplyPage(Compact(Page).pg)
  /\ calls' = [calls EXCEPT !.compact = @ + 1]
  /\ UNCHANGED live

InitData ==
  /\ poolSize = 1
  /\ Init

NextData ==
  \/ \E rec \in Records : insertRecord(rec)
  \/ \E slotId \in 0 .. MaxSlot : deleteRecord(slotId)
  \/ compact

SpecData == InitData /\ [][NextData]_vars

TypeOKData ==
  /\ fault \in BOOLEAN
  /\ \A a \in DOMAIN mem : a \in 0 .. (PAGE_SIZE - 1) /\ mem[a] \in 1 .. 255
  /\ calls.insert \in 0 .. MaxInserts
  /\ calls.delete \in 0 .. MaxDeletes
  /\ calls.compact \in 0 .. MaxCompacts

(***************************************************************************)
(* Properties of the DataPage.                                             *)
(***************************************************************************)

\* Slot s of page pg reads back as the record rec.
ReadsBack(pg, s, rec) ==
  LET g == GetRecord(pg, s)
  IN /\ g.ok
     /\ g.length = Len(rec.data)
     /\ RecordBytes(pg, g.ptr, g.length) = rec.data
     /\ GetRecordType(pg, s) = [ok |-> TRUE, type |-> rec.type, fault |-> FALSE]

\* C6: a record stays readable unchanged.  Every slot ID that insertRecord
\* returned and that was not passed to deleteRecord since still reads back,
\* with getRecord and getRecordType, as the payload, length and type it was
\* inserted with, after any later insertRecord calls with other keys,
\* deleteRecord calls on other slots and compact calls.
C6_RecordStaysReadable ==
  /\ ~fault
  /\ \A s \in DOMAIN live : ReadsBack(Page, s, live[s])

\* C7: insertRecord round trip.  Whatever record is inserted into the page
\* as it is now, a successful insertRecord returns a slot ID that at once
\* reads back as that record, and getSlotId of its key returns that slot ID
\* when the key was not in the directory before the call.
C7_InsertRoundTrip ==
  ~fault =>
    \A rec \in Records :
      LET r == InsertRecord(Page, rec.key, rec.data, rec.type)
      IN r.ok =>
           /\ ~r.pg.fault
           /\ ReadsBack(r.pg, r.slotId, rec)
           /\ ~GetSlotId(Page, rec.key).ok =>
                GetSlotId(r.pg, rec.key) = [ok |-> TRUE, slotId |-> r.slotId, fault |-> FALSE]

(***************************************************************************)
(* Threads calling one pool at the same time.  Every public operation of   *)
(* the BufferPool takes the pool's mutex in its first line (std::lock_guard)*)
(* and holds it until it returns, so a call of a thread is one step and    *)
(* the calls of the threads interleave in any order.  First one caller     *)
(* makes up to MaxSetup calls; then the threads are started, all of one    *)
(* kind: each makes one createPage, or each makes fetchPage and then        *)
(* unpinPage of one page that is resident and pinned by nobody.            *)
(***************************************************************************)
FreeFrames == {f \in FrameIdx : frames[f].page = NullPage}

setupCall ==
  /\ thr.phase = "setup"
  /\ thr.n < MaxSetup
  /\ thr' = [thr EXCEPT !.n = @ + 1]
  /\ \/ \E pageId \in PageIds : \E o \in FetchOutcomes(pageId) :
          ApplyCall("fetchPage", pageId, o, FALSE)
     \/ /\ freePages # <<>> \/ pageCount < MaxPages
        /\ \E o \in CreateOutcomes("DATA") : ApplyCall("createPage", NoPageId, o, FALSE)
     \/ \E pageId \in PageIds : \E o \in DeleteOutcomes(pageId) :
          ApplyCall("deletePage", pageId, o, FALSE)
     \/ \E pageId \in PageIds : \E o \in UnpinOutcomes(pageId) :
          ApplyCall("unpinPage", pageId, o, FALSE)
     \/ \E pageId \in PageIds : \E o \in FlushOutcomes(pageId) :
          ApplyCall("flushPage", pageId, o, FALSE)
     \/ \E o \in FlushAllOutcomes : ApplyCall("flushAll", NoPageId, o, FALSE)

startCreates ==
  /\ thr.phase = "setup"
  /\ Cardinality(FreeFrames) >= MaxThreads
  /\ thr' = [thr EXCEPT !.phase = "run", !.kind = "create"]
  /\ UNCHANGED <<poolVars, diskVars, last, scen, dataVars, callVars, moreVars>>

startFetches(pageId) ==
  /\ thr.phase = "setup"
  /\ Resident(pageId)
  /\ frames[pageTable[pageId]].pinCount = 0
  /\ thr' = [thr EXCEPT !.phase = "run", !.kind = "fetch", !.page = pageId,
                        !.frame = pageTable[pageId]]
  /\ UNCHANGED <<poolVars, diskVars, last, scen, dataVars, callVars, moreVars>>

threadCreate(t) ==
  /\ thr.phase = "run"
  /\ thr.kind = "create"
  /\ thr.pc[t] = "ready"
  /\ freePages # <<>> \/ pageCount < MaxPages
  /\ \E o \in CreateOutcomes("DATA") :
       /\ ApplyCall("createPage", NoPageId, o, FALSE)
       /\ thr' = [thr EXCEPT !.pc[t] = "done",
                             !.got[t] = [ok |-> o.ok, id |-> o.page.id, frame |-> o.victim]]

threadFetch(t) ==
  /\ thr.phase = "run"
  /\ thr.kind = "fetch"
  /\ thr.pc[t] = "ready"
  /\ \E o \in FetchOutcomes(thr.page) :
       /\ ApplyCall("fetchPage", thr.page, o, FALSE)
       /\ thr' = [thr EXCEPT !.pc[t] = "fetched",
                             !.got[t] = [ok |-> o.ok, id |-> o.page.id,
                                         frame |-> IF o.why = "hit" THEN pageTable[thr.page]
                                                   ELSE o.victim]]

threadUnpin(t) ==
  /\ thr.phase = "run"
  /\ thr.kind = "fetch"
  /\ thr.pc[t] = "fetched"
  /\ ApplyCall("unpinPage", thr.page, UnpinPageOp(Pool, thr.page, FALSE), FALSE)
  /\ thr' = [thr EXCEPT !.pc[t] = "done"]

NextThreads ==
  \/ setupCall
  \/ startCreates
  \/ \E pageId \in PageIds : startFetches(pageId)
  \/ \E t \in Threads : threadCreate(t)
  \/ \E t \in Threads : threadFetch(t)
  \/ \E t \in Threads : threadUnpin(t)

SpecThreads == Init /\ [][NextThreads]_vars

(***************************************************************************)
(* Properties of concurrent calls.                                         *)
(***************************************************************************)

\* C12: when the threads each call createPage and at least as many frames
\* hold no page as there are threads, every call that has returned has
\* succeeded, the pages returned have pairwise distinct IDs and frames, and
\* each is installed in its frame with pin count 1 and is the page-table
\* entry of its ID.
C12_ParallelCreatesDistinct ==
  (thr.phase = "run" /\ thr.kind = "create") =>
    \A t \in Threads :
      thr.pc[t] = "done" =>
        /\ thr.got[t].ok
        /\ \A u \in Threads \ {t} :
             thr.pc[u] = "done" =>
               thr.got[u].id # thr.got[t].id /\ thr.got[u].frame # thr.got[t].frame
        /\ frames[thr.got[t].frame].page.id = thr.got[t].id
        /\ frames[thr.got[t].frame].pinCount = 1
        /\ pageTable[thr.got[t].id] = thr.got[t].frame

Outstanding == Cardinality({t \in Threads : thr.pc[t] = "fetched"})

\* C13: while the threads each run fetchPage(p) and then unpinPage(p, false)
\* on a resident page p that nobody held pinned, p stays in its frame, every
\* fetchPage that has returned has returned that page of that frame, the
\* frame's pin count is the number of threads that have fetched and not yet
\* unpinned, the frame is in the replacer only when that number is zero, and
\* when all threads are done the pin count is 0 and the frame is in the
\* replacer.
C13_ParallelFetchesCounted ==
  (thr.phase = "run" /\ thr.kind = "fetch") =>
    /\ pageTable[thr.page] = thr.frame
    /\ frames[thr.frame].page # NullPage
    /\ frames[thr.frame].page.id = thr.page
    /\ \A t \in Threads :
         thr.pc[t] # "ready" => thr.got[t] = [ok |-> TRUE, id |-> thr.page, frame |-> thr.frame]
    /\ frames[thr.frame].pinCount = Outstanding
    /\ thr.frame \in frameMap => Outstanding = 0
    /\ (\A t \in Threads : thr.pc[t] = "done") =>
         frames[thr.frame].pinCount = 0 /\ thr.frame \in frameMap

\* Every thread has fetched the page and none has unpinned it yet.
C13_Witness ==
  /\ thr.phase = "run"
  /\ thr.kind = "fetch"
  /\ Outstanding = MaxThreads
  /\ MaxThreads > 1

(***************************************************************************)
(* An LRUReplacer called directly (src/cache/policies/lru_replacer.cpp):   *)
(* up to MaxLruCalls calls of pin, unpin and victim with frames of         *)
(* LruFrames, each recorded in hist with what it returned.                 *)
(***************************************************************************)
LruFrames == 1 .. MaxLruFrames

lruPin(frameId) ==
  /\ Len(hist) < MaxLruCalls
  /\ LET r == ReplacerPin(Replacer, frameId)
     IN /\ frameList' = r.list
        /\ frameMap' = r.map
  /\ hist' = Append(hist, [op |-> "pin", frame |-> frameId])
  /\ UNCHANGED <<poolSize, frames, pageTable, diskVars, last, scen, dataVars, thr, dirty, dbfile, dm, moreVars>>

lruUnpin(frameId) ==
  /\ Len(hist) < MaxLruCalls
  /\ LET r == ReplacerUnpin(Replacer, frameId)
     IN /\ frameList' = r.list
        /\ frameMap' = r.map
  /\ hist' = Append(hist, [op |-> "unpin", frame |-> frameId])
  /\ UNCHANGED <<poolSize, frames, pageTable, diskVars, last, scen, dataVars, thr, dirty, dbfile, dm, moreVars>>

\* frame is the frame returned, NoFrame for std::nullopt.
lruVictim ==
  /\ Len(hist) < MaxLruCalls
  /\ LET rv == ReplacerVictim(Replacer)
     IN /\ frameList' = rv.r.list
        /\ frameMap' = rv.r.map
        /\ hist' = Append(hist, [op |-> "victim", frame |-> rv.v])
  /\ UNCHANGED <<poolSize, frames, pageTable, diskVars, last, scen, dataVars, thr, dirty, dbfile, dm, moreVars>>

NextLRU ==
  \/ \E frameId \in LruFrames : lruPin(frameId)
  \/ \E frameId \in LruFrames : lruUnpin(frameId)
  \/ lruVictim

SpecLRU == Init /\ [][NextLRU]_vars

(***************************************************************************)
(* Properties of the LRUReplacer, stated over the calls recorded in hist.  *)
(***************************************************************************)

\* The positions of hist that concern frame f: its pins, its unpins and the
\* victim calls that returned it.
CallsOn(f) == {i \in 1 .. Len(hist) : hist[i].frame = f}

LastCallOn(f) == CHOOSE i \in CallsOn(f) : \A j \in CallsOn(f) : j <= i

\* The frames whose most recent call was unpin.
Unpinned == {f \in LruFrames : CallsOn(f) # {} /\ hist[LastCallOn(f)].op = "unpin"}

\* The frame of Unpinned, not empty, whose most recent unpin is the oldest.
OldestUnpinned == CHOOSE f \in Unpinned : \A g \in Unpinned : LastCallOn(f) <= LastCallOn(g)

RECURSIVE Victims(_, _)
\* What n calls of victim() in a row return.
Victims(r, n) ==
  IF n = 0 THEN <<>>
  ELSE LET rv == ReplacerVictim(r) IN <<rv.v>> \o Victims(rv.r, n - 1)

ReorderExample ==
  <<[op |-> "unpin", frame |-> 1], [op |-> "unpin", frame |-> 2],
    [op |-> "unpin", frame |-> 3], [op |-> "unpin", frame |-> 1]>>

\* C15: the replacer tracks exactly the frames whose most recent call was
\* unpin (not pin, and not returned by victim since), each with a single
\* entry, the most recently unpinned first; victim() removes and returns the
\* tracked frame whose most recent unpin is the oldest and returns nothing
\* exactly when no frame is tracked; pin of an untracked frame changes
\* nothing; after unpin(1), unpin(2), unpin(3), unpin(1) the victims are 2,
\* 3, 1 and then nothing.
C15_LruOrder ==
  /\ frameMap = Unpinned
  /\ {frameList[i] : i \in 1 .. Len(frameList)} = Unpinned
  /\ Len(frameList) = Cardinality(Unpinned)
  /\ \A i \in 1 .. Len(frameList) : \A j \in 1 .. Len(frameList) :
       i < j => LastCallOn(frameList[i]) > LastCallOn(frameList[j])
  /\ LET rv == ReplacerVictim(Replacer)
     IN /\ rv.v = NoFrame <=> Unpinned = {}
        /\ Unpinned # {} =>
             /\ rv.v = OldestUnpinned
             /\ rv.r.map = Unpinned \ {rv.v}
             /\ rv.r.list = SeqRemove(frameList, rv.v)
  /\ \A f \in LruFrames \ Unpinned : ReplacerPin(Replacer, f) = Replacer
  /\ hist = ReorderExample => Victims(Replacer, 4) = <<2, 3, 1, NoFrame>>

\* A frame unpinned again while two others were tracked.
C15_Witness ==
  /\ hist = ReorderExample
  /\ frameList = <<1, 3, 2>>

(***************************************************************************)
(* A DiskManager called directly: allocatePage, deallocatePage, flushPage  *)
(* of the pages of DiskPages, fetchPage, sync, the destructor, and the     *)
(* constructor with create = false on the file an instance left.           *)
(***************************************************************************)
DiskIds == 0 .. (MaxDiskPages - 1)

\* A DataPage holding one record.
DataImage(pageId) == InsertRecord(NewDataPage(pageId), 1, <<17>>, 3).pg.mem

\* The pages flushPage is called with: a data page for each ID and, with ID
\* 0, a leaf index page and a page of type SPECIAL.
DiskPages ==
  {DataImage(id) : id \in DiskIds} \cup {NewIndexPage(0, 1, 0), NewPage(0, PageTypeSPECIAL)}

ApplyDisk(d, calls2) ==
  /\ pageCount' = d.pageCount
  /\ freePages' = d.freePages
  /\ dirty' = d.dirty
  /\ dbfile' = d.file
  /\ dm' = calls2
  /\ UNCHANGED <<poolVars, file, last, scen, dataVars, thr, hist, moreVars>>

diskAllocate ==
  /\ dm.alive
  /\ Len(dm.ids) < MaxAllocs
  /\ freePages # <<>> \/ pageCount < MaxDiskPages
  /\ LET a == DmAllocatePage(DiskM)
     IN ApplyDisk(a.d, [dm EXCEPT !.ids = Append(@, a.id),
                                  !.live = @ \cup {a.id},
                                  !.peak = Max(@, a.d.pageCount),
                                  !.last = [op |-> "allocatePage", ok |-> TRUE]])

diskDeallocate(pageId) ==
  /\ dm.alive
  /\ Len(freePages) < MaxDiskFree
  /\ LET r == DmDeallocatePage(DiskM, pageId)
     IN ApplyDisk(r.d, [dm EXCEPT !.freed = @ \/ r.ok,
                                  !.live = IF r.ok THEN @ \ {pageId} ELSE @,
                                  !.last = [op |-> "deallocatePage", ok |-> r.ok]])

\* Without m's entry for a.
Forget(m, a) == [x \in (DOMAIN m) \ {a} |-> m[x]]

\* m with the entry v for a.
Remember(m, a, v) == [x \in (DOMAIN m) \cup {a} |-> IF x = a THEN v ELSE m[x]]

diskFlush(page) ==
  /\ dm.alive
  /\ \E ioOk \in BOOLEAN :
       LET r == DmFlushPage(DiskM, page, ioOk)
           id == PageIdOf(page)
       IN ApplyDisk(r.d, [dm EXCEPT !.flushed = IF r.ok THEN Remember(@, id, page)
                                                  ELSE Forget(@, id),
                                    !.last = [op |-> "flushPage", ok |-> r.ok]])

diskFetch(pageId) ==
  /\ dm.alive
  /\ \E ioOk \in BOOLEAN :
       LET r == DmFetchPage(DiskM, pageId, ioOk)
       IN ApplyDisk(DiskM, [dm EXCEPT !.last = [op |-> "fetchPage", ok |-> r.ok]])

diskSync ==
  /\ dm.alive
  /\ \E writeOk \in BOOLEAN, openOk \in BOOLEAN :
       LET r == DmSync(DiskM, writeOk, openOk)
       IN ApplyDisk(r.d, [dm EXCEPT !.last = [op |-> "sync", ok |-> r.ok]])

\* ok: no write of the destructor failed.  The members of the destroyed
\* instance keep the values it had.
diskDestroy ==
  /\ dm.alive
  /\ \E firstOk \in BOOLEAN, writeOk \in BOOLEAN, openOk \in BOOLEAN :
       ApplyDisk([DiskM EXCEPT !.file = DmDestroy(DiskM, firstOk, writeOk, openOk)],
                 [dm EXCEPT !.alive = FALSE,
                            !.last = [op |-> "destroy", ok |-> firstOk /\ writeOk /\ openOk]])

\* The constructor throws where readHeader does: no instance then.
diskReopen ==
  /\ ~dm.alive
  /\ \E ioOk \in BOOLEAN :
       LET o == DmOpen(dbfile, ioOk)
       IN IF o.ok
            THEN ApplyDisk(o.d, [dm EXCEPT !.alive = TRUE, !.created = FALSE, !.ids = <<>>,
                                           !.live = {}, !.freed = FALSE, !.peak = o.d.pageCount,
                                           !.last = [op |-> "reopen", ok |-> dm.last.ok]])
            ELSE ApplyDisk(DiskM, [dm EXCEPT !.last = [op |-> "open failed", ok |-> dm.last.ok]])

NextDisk ==
  \/ diskAllocate
  \/ \E pageId \in 0 .. MaxDiskPages : diskDeallocate(pageId)
  \/ \E page \in DiskPages : diskFlush(page)
  \/ \E pageId \in 0 .. MaxDiskPages : diskFetch(pageId)
  \/ diskSync
  \/ diskDestroy
  \/ diskReopen

InitDisk ==
  /\ poolSize = 1
  /\ Init

SpecDisk == InitDisk /\ [][NextDisk]_vars

TypeOKDisk ==
  /\ dirty \in BOOLEAN
  /\ pageCount \in 0 .. MaxDiskPages
  /\ Len(freePages) <= MaxDiskFree
  /\ \A i \in 1 .. Len(freePages) : freePages[i] < pageCount
  /\ dbfile.len >= DB_HEADER_SIZE
  /\ \A a \in DOMAIN dbfile.bytes : a < dbfile.len /\ dbfile.bytes[a] \in 1 .. 255

(***************************************************************************)
(* Properties of the DiskManager.  A property of a call is stated over     *)
(* what the call does in the state reached.                                *)
(***************************************************************************)

\* C16: after deallocatePage(x) has returned true the next allocatePage()
\* returns x and leaves pageCount as it was; allocatePage takes its ID from
\* the free-page list while the list is not empty, and returns the current
\* pageCount, which it then increments, only when the list is empty.
C16_FreedPageReused ==
  dm.alive =>
    /\ \A x \in 0 .. MaxDiskPages :
         LET r == DmDeallocatePage(DiskM, x)
             a == DmAllocatePage(r.d)
         IN r.ok => a.id = x /\ a.d.pageCount = pageCount /\ a.d.freePages = freePages
    /\ LET a == DmAllocatePage(DiskM)
       IN IF freePages = <<>>
            THEN a.id = pageCount /\ a.d.pageCount = pageCount + 1
            ELSE /\ a.id = freePages[Len(freePages)]
                 /\ a.id < pageCount
                 /\ a.d.pageCount = pageCount

\* An allocatePage served from a free list of two pages: it returned the
\* page freed last and left the other one in the list.
C16_Witness ==
  /\ dm.alive
  /\ dm.last.op = "allocatePage"
  /\ dm.freed
  /\ Len(freePages) = 1
  /\ dm.ids[Len(dm.ids)] # freePages[1]
  /\ pageCount = MaxDiskPages

\* C17: on a newly created database allocatePage returns 0, 1, 2, ... in
\* order while no page has been freed; pageCount never decreases, grows by
\* exactly one on an allocation served with a fresh ID, is unchanged by
\* deallocatePage and by an allocation served from the free list, and every
\* ID allocatePage has returned is smaller than pageCount.
C17_PageCountHighWater ==
  dm.alive =>
    /\ (dm.created /\ ~dm.freed) => dm.ids = [i \in 1 .. Len(dm.ids) |-> i - 1]
    /\ \A i \in 1 .. Len(dm.ids) : dm.ids[i] < pageCount
    /\ pageCount >= dm.peak
    /\ LET a == DmAllocatePage(DiskM)
       IN /\ a.d.pageCount = IF freePages = <<>> THEN pageCount + 1 ELSE pageCount
          /\ a.id < a.d.pageCount
    /\ \A x \in 0 .. MaxDiskPages : DmDeallocatePage(DiskM, x).d.pageCount = pageCount

\* A newly created database with nothing freed has handed out MaxDiskPages
\* IDs.
C17_Witness ==
  /\ dm.alive
  /\ dm.created
  /\ ~dm.freed
  /\ dm.last.op = "allocatePage"
  /\ Len(dm.ids) = MaxDiskPages
  /\ pageCount = MaxDiskPages

\* C18: for a DATA or INDEX page p whose ID is below pageCount, once
\* flushPage(p) has returned true and until another flushPage is done for
\* that ID, a fetchPage(p.id()) that can read the file returns a page of p's
\* type whose 4096 bytes are those p had when it was flushed.
C18_FlushFetchRoundTrip ==
  dm.alive =>
    \A id \in DOMAIN dm.flushed :
      LET p == dm.flushed[id]
          r == DmFetchPage(DiskM, id, TRUE)
      IN (id < pageCount /\ PageTypeOf(p) \in {PageTypeDATA, PageTypeINDEX}) =>
           /\ r.ok
           /\ PageTypeOf(r.page) = PageTypeOf(p)
           /\ r.page = p

\* fetchPage returned a page while the images of all the page IDs had been
\* flushed, the one of ID 0 as an index page.
C18_Witness ==
  /\ dm.alive
  /\ dm.last = [op |-> "fetchPage", ok |-> TRUE]
  /\ DOMAIN dm.flushed = DiskIds
  /\ PageTypeOf(dm.flushed[0]) = PageTypeINDEX
  /\ pageCount = MaxDiskPages

\* What an instance opened on the file f with create = false has and
\* fetches is what the current instance has and fetches.
Persisted(f) ==
  LET o == DmOpen(f, TRUE)
  IN /\ o.ok
     /\ o.d.pageCount = pageCount
     /\ \A id \in 0 .. MaxDiskPages :
          DmFetchPage(o.d, id, TRUE) = DmFetchPage(DiskM, id, TRUE)

\* C19: a sync() that returns true has written the header to the file if it
\* was dirty and has cleared the dirty flag; after it, and after a
\* destruction in which no write failed, opening the file with create =
\* false gives the pageCount of the instance that wrote it, and the pages
\* flushed before are fetched as before.
C19_SyncPersists ==
  dm.alive =>
    /\ \A writeOk \in BOOLEAN, openOk \in BOOLEAN :
         LET r == DmSync(DiskM, writeOk, openOk)
         IN r.ok =>
              /\ ~r.d.dirty
              /\ Memcpy(<<>>, 0, DB_HEADER_SIZE, r.d.file.bytes, 0) = HeaderBytes(pageCount)
              /\ Persisted(r.d.file)
    /\ Persisted(DmDestroy(DiskM, TRUE, TRUE, TRUE))
    /\ \A id \in DOMAIN dm.flushed :
         LET p == dm.flushed[id]
         IN (id < pageCount /\ PageTypeOf(p) \in {PageTypeDATA, PageTypeINDEX}) =>
              DmFetchPage(DmOpen(DmDestroy(DiskM, TRUE, TRUE, TRUE), TRUE).d, id, TRUE)
                = [ok |-> TRUE, page |-> p]

\* An instance that allocated and flushed pages was destroyed without a
\* failed write, and the file was opened again.
C19_Witness ==
  /\ dm.alive
  /\ dm.last = [op |-> "reopen", ok |-> TRUE]
  /\ ~dm.created
  /\ pageCount = MaxDiskPages
  /\ DOMAIN dm.flushed = DiskIds

(***************************************************************************)
(* The layout of the DataPage.  To fill the page the calls of insertRecord *)
(* pass records of up to 4000 bytes, here of zero bytes, and a key whose   *)
(* upper half is 4080; the calls are insertRecord and compact.             *)
(***************************************************************************)
FillKey == 267386880

Zeros(n) == [i \in 1 .. n |-> 0]

FillRecords ==
  {[key |-> 1, data |-> Zeros(1), type |-> 3],
   [key |-> 1, data |-> Zeros(2000), type |-> 3],
   [key |-> FillKey, data |-> Zeros(4000), type |-> 3]}

NextFill ==
  \/ \E rec \in FillRecords : insertRecord(rec)
  \/ compact

SpecFill == InitData /\ [][NextFill]_vars

\* C20: after any sequence of insertRecord, deleteRecord and compact calls
\* the header, the directory and the slot array end at or before the record
\* heap, which ends at the end of the page:
\* 23 + 6 * directoryCount + 6 * slotCount <= freeSpaceOffset <= 4096.
C20_HeapNotOverlapped ==
  ~fault =>
    /\ DATA_HEADER_SIZE + PAIR_SIZE * DirectoryCount(mem) + SLOT_SIZE * SlotCount(mem)
         <= FreeSpaceOffset(mem)
    /\ FreeSpaceOffset(mem) <= PAGE_SIZE

\* C21: after any sequence of insertRecord and deleteRecord calls the
\* directory has no more entries than there are slots:
\* directoryCount <= slotCount.
C21_DirectoryWithinSlots ==
  (~fault /\ calls.compact = 0) => DirectoryCount(mem) <= SlotCount(mem)

\* C22: deleteRecord(s) on a live slot, one that insertRecord returned and
\* that was not deleted since, returns true, sets the slot's DELETED flag
\* and decrements itemCount by one; after it getRecord(s) and
\* getRecordType(s) return nothing and a second deleteRecord(s) returns
\* false and changes nothing; deleteRecord of a slot ID >= slotCount
\* returns false and changes nothing.
C22_DeleteOnce ==
  ~fault =>
    /\ \A s \in DOMAIN live :
         LET r == DeleteRecord(Page, s)
         IN /\ r.ok
            /\ ~r.pg.fault
            /\ IsSet(Rd16(r.pg.mem, Slots(r.pg.mem, s) + 4), DELETED)
            /\ ItemCount(r.pg.mem) = ItemCount(mem) - 1
            /\ ~GetRecord(r.pg, s).ok
            /\ ~GetRecordType(r.pg, s).ok
            /\ DeleteRecord(r.pg, s) = [pg |-> r.pg, ok |-> FALSE]
    /\ \A s \in 0 .. (MaxInserts + 1) :
         s >= SlotCount(mem) => DeleteRecord(Page, s) = [pg |-> Page, ok |-> FALSE]

\* Record lengths around the page's capacity and around the 16-bit limit.
WideLengths == {0, 1, 4056, 4057, 4058, 4096, 65519, 65520, 65530, 65535}

\* C23: insertRecord returns nothing and leaves the page unchanged whenever
\* length + 4 + 6 + 6 exceeds freeSpace, for 16-bit lengths up to 65535,
\* and it never writes outside the 4096-byte page.
C23_NoFitNoChange ==
  ~fault =>
    \A length \in WideLengths :
      LET r == InsertRecord(Page, FillKey, Zeros(length), 3)
      IN /\ ~r.pg.fault
         /\ length + RECORD_HEADER_SIZE + SLOT_SIZE + PAIR_SIZE > FreeSpace(mem)
              => ~r.ok /\ r.pg = Page

\* C24: compact() returns exactly the number of record-heap bytes it
\* reclaims, which is the amount by which freeSpaceOffset rises and the
\* amount added to freeSpace; it leaves slotCount, directoryCount and
\* itemCount unchanged, and a second compact() right after it returns 0.
\* (The claim also equates the amount with the bytes of the records deleted
\* since the last compaction; the equalities below do not depend on it.)
C24_CompactReturnsReclaimed ==
  ~fault =>
    LET c == Compact(Page)
        again == Compact(c.pg)
    IN ~c.pg.fault =>
         /\ c.bytesFreed = FreeSpaceOffset(c.pg.mem) - FreeSpaceOffset(mem)
         /\ c.bytesFreed = FreeSpace(c.pg.mem) - FreeSpace(mem)
         /\ SlotCount(c.pg.mem) = SlotCount(mem)
         /\ DirectoryCount(c.pg.mem) = DirectoryCount(mem)
         /\ ItemCount(c.pg.mem) = ItemCount(mem)
         /\ ~again.pg.fault /\ again.bytesFreed = 0

\* C25: an insertRecord that returns a slot takes the slot at the head of
\* the free-slot list, the most recently deleted slot that was not taken
\* again, whenever the list is not empty, and grows slotCount only when it
\* is empty.  So an insert right after deleteRecord(s) returns s and leaves
\* slotCount unchanged, and after deleteRecord of a, b and c on a page whose
\* list was empty the next three inserts return c, b and a.
C25_ReusesFreedSlot ==
  ~fault =>
    \A rec \in Records :
      LET Ins(pg) == InsertRecord(pg, rec.key, rec.data, rec.type)
          r == Ins(Page)
      IN /\ r.ok =>
              IF FirstFreeSlot(mem) # INVALID_SLOT
              THEN r.slotId = FirstFreeSlot(mem) /\ SlotCount(r.pg.mem) = SlotCount(mem)
              ELSE r.slotId = SlotCount(mem) /\ SlotCount(r.pg.mem) = SlotCount(mem) + 1
         /\ \A s \in 0 .. MaxSlot :
              LET d == DeleteRecord(Page, s)
              IN (d.ok /\ Ins(d.pg).ok) =>
                   /\ Ins(d.pg).slotId = s
                   /\ SlotCount(Ins(d.pg).pg.mem) = SlotCount(mem)
         /\ \A a, b, c \in 0 .. MaxSlot :
              LET d1 == DeleteRecord(Page, a)
                  d2 == DeleteRecord(d1.pg, b)
                  d3 == DeleteRecord(d2.pg, c)
                  r1 == Ins(d3.pg)
                  r2 == Ins(r1.pg)
                  r3 == Ins(r2.pg)
              IN ( /\ FirstFreeSlot(mem) = INVALID_SLOT
                   /\ d1.ok /\ d2.ok /\ d3.ok
                   /\ r1.ok /\ r2.ok /\ r3.ok )
                 => /\ <<r1.slotId, r2.slotId, r3.slotId>> = <<c, b, a>>
                    /\ SlotCount(r3.pg.mem) = SlotCount(mem)

(***************************************************************************)
(* One Frame whose pin and unpin are called by the threads with no lock    *)
(* around the calls (include/pulsedb/cache/frame.hpp).  pinCount is a      *)
(* std::atomic<uint32_t>: ++pinCount is one atomic step; unpin evaluates   *)
(* pinCount > 0, an atomic load, and then --pinCount, a second atomic      *)
(* step, and other threads run between the two.                            *)
(***************************************************************************)
Inc32(c) ==
  IF c.lo = 65535 THEN [lo |-> 0, hi |-> Wrap16(c.hi + 1)] ELSE [c EXCEPT !.lo = @ + 1]

Dec32(c) ==
  IF c.lo = 0 THEN [lo |-> 65535, hi |-> Wrap16(c.hi + 65535)] ELSE [c EXCEPT !.lo = @ - 1]

\* size_t pin() noexcept { return ++pinCount; }
framePin(t) ==
  /\ pins.pc[t] = "idle"
  /\ pins.n[t] < MaxPinCalls
  /\ pins' = [pins EXCEPT !.pinCount = Inc32(@), !.n[t] = @ + 1, !.incs = @ + 1]
  /\ UNCHANGED <<poolVars, diskVars, last, scen, dataVars, thr, callVars, mutex, index, heap>>

\* unpin, the condition pinCount > 0: when it is false the call returns 0.
frameUnpinTest(t) ==
  /\ pins.pc[t] = "idle"
  /\ pins.n[t] < MaxPinCalls
  /\ pins' = IF pins.pinCount # [lo |-> 0, hi |-> 0]
             THEN [pins EXCEPT !.pc[t] = "decrement"]
             ELSE [pins EXCEPT !.n[t] = @ + 1]
  /\ UNCHANGED <<poolVars, diskVars, last, scen, dataVars, thr, callVars, mutex, index, heap>>

\* unpin, --pinCount.
frameUnpinDecrement(t) ==
  /\ pins.pc[t] = "decrement"
  /\ pins' = [pins EXCEPT !.pinCount = Dec32(@), !.pc[t] = "idle", !.n[t] = @ + 1,
                          !.decs = @ + 1]
  /\ UNCHANGED <<poolVars, diskVars, last, scen, dataVars, thr, callVars, mutex, index, heap>>

NextPins ==
  \/ \E t \in Threads : framePin(t)
  \/ \E t \in Threads : frameUnpinTest(t)
  \/ \E t \in Threads : frameUnpinDecrement(t)

SpecPins == InitData /\ [][NextPins]_vars

\* C26: whatever the interleaving of the threads' pin and unpin calls on one
\* frame, no increment or decrement is lost and the pin count never goes
\* below zero and never wraps: it is the number of increments less the
\* number of decrements, which is not negative.
C26_PinsRaceFree ==
  /\ pins.pinCount.hi = 0
  /\ pins.decs <= pins.incs
  /\ pins.pinCount.lo = pins.incs - pins.decs

(***************************************************************************)
(* An LRUReplacer called by the threads at the same time                   *)
(* (src/cache/policies/lru_replacer.cpp).  pin, unpin and victim each      *)
(* construct a std::lock_guard on the mutex in their first line and hold   *)
(* it until they return.  A call is a step that takes the mutex, one step  *)
(* per change of frameList or frameMap, and the return, which releases the *)
(* mutex and records the call in hist.                                     *)
(***************************************************************************)
\* Mutant of MutexFree: the methods do not wait for the mutex.
MutexFree_NoWait(owner) == TRUE

MutexFree(owner) == owner = 0

lockedRest ==
  <<poolSize, frames, pageTable, diskVars, last, scen, dataVars, thr, dirty, dbfile, dm, pins, index, heap>>

\* std::lock_guard lock(mutex) of pin, unpin (with frameId) or victim.
replacerLock(t, op, frameId) ==
  /\ mutex.pc[t] = "idle"
  /\ Len(hist) < MaxLockedCalls
  /\ MutexFree(mutex.owner)
  /\ mutex' = [mutex EXCEPT !.owner = t, !.pc[t] = op,
                            !.arg[t] = IF op = "victim" THEN NoFrame ELSE frameId]
  /\ UNCHANGED <<frameList, frameMap, hist, lockedRest>>

\* The return of a call: the lock_guard releases the mutex.
ReplacerReturn(t, op, frame) ==
  /\ mutex' = [mutex EXCEPT !.owner = 0, !.pc[t] = "idle", !.arg[t] = NoFrame]
  /\ hist' = Append(hist, [op |-> op, frame |-> frame, by |-> t])

replacerPin(t) ==
  LET frameId == mutex.arg[t]
  IN /\ \/ /\ mutex.pc[t] = "pin"
           /\ frameId \in frameMap
           /\ frameList' = SeqRemove(frameList, frameId)
           /\ mutex' = [mutex EXCEPT !.pc[t] = "pin.map"]
           /\ UNCHANGED <<frameMap, hist>>
        \/ /\ mutex.pc[t] = "pin"
           /\ frameId \notin frameMap
           /\ ReplacerReturn(t, "pin", frameId)
           /\ UNCHANGED <<frameList, frameMap>>
        \/ /\ mutex.pc[t] = "pin.map"
           /\ frameMap' = frameMap \ {frameId}
           /\ ReplacerReturn(t, "pin", frameId)
           /\ UNCHANGED frameList
     /\ UNCHANGED lockedRest

replacerUnpin(t) ==
  LET frameId == mutex.arg[t]
  IN /\ \/ /\ mutex.pc[t] = "unpin"
           /\ frameId \in frameMap
           /\ frameList' = SeqRemove(frameList, frameId)
           /\ mutex' = [mutex EXCEPT !.pc[t] = "unpin.map"]
           /\ UNCHANGED <<frameMap, hist>>
        \/ /\ mutex.pc[t] = "unpin"
           /\ frameId \notin frameMap
           /\ mutex' = [mutex EXCEPT !.pc[t] = "unpin.push"]
           /\ UNCHANGED <<frameList, frameMap, hist>>
        \/ /\ mutex.pc[t] = "unpin.map"
           /\ frameMap' = frameMap \ {frameId}
           /\ mutex' = [mutex EXCEPT !.pc[t] = "unpin.push"]
           /\ UNCHANGED <<frameList, hist>>
        \/ /\ mutex.pc[t] = "unpin.push"
           /\ frameList' = <<frameId>> \o frameList
           /\ mutex' = [mutex EXCEPT !.pc[t] = "unpin.set"]
           /\ UNCHANGED <<frameMap, hist>>
        \/ /\ mutex.pc[t] = "unpin.set"
           /\ frameMap' = frameMap \cup {frameId}
           /\ ReplacerReturn(t, "unpin", frameId)
           /\ UNCHANGED frameList
     /\ UNCHANGED lockedRest

replacerVictim(t) ==
  /\ \/ /\ mutex.pc[t] = "victim"
        /\ frameList = <<>>
        /\ ReplacerReturn(t, "victim", NoFrame)
        /\ UNCHANGED <<frameList, frameMap>>
     \/ /\ mutex.pc[t] = "victim"
        /\ frameList # <<>>
        /\ frameList' = SubSeq(frameList, 1, Len(frameList) - 1)
        /\ mutex' = [mutex EXCEPT !.pc[t] = "victim.map", !.arg[t] = frameList[Len(frameList)]]
        /\ UNCHANGED <<frameMap, hist>>
     \/ /\ mutex.pc[t] = "victim.map"
        /\ frameMap' = frameMap \ {mutex.arg[t]}
        /\ ReplacerReturn(t, "victim", mutex.arg[t])
        /\ UNCHANGED frameList
  /\ UNCHANGED lockedRest

NextLocked ==
  \/ \E t \in Threads : \E op \in {"pin", "unpin", "victim"} : \E frameId \in LruFrames :
       replacerLock(t, op, frameId)
  \/ \E t \in Threads : replacerPin(t)
  \/ \E t \in Threads : replacerUnpin(t)
  \/ \E t \in Threads : replacerVictim(t)

SpecLocked == InitData /\ [][NextLocked]_vars

\* The threads inside a call of the replacer.
Inside == {t \in Threads : mutex.pc[t] # "idle"}

\* C27: the LRUReplacer is thread-safe on its own.  Each call is atomic: at
\* most one thread is inside a call and it holds the mutex, and the calls
\* have the results of the same calls made one after the other in the order
\* in which they returned.  Whenever no call is in progress the list and
\* the map hold the same frames, each frame once in the list.  No frame is
\* returned by two victim() calls with no unpin of it in between.
C27_ReplacerThreadSafe ==
  /\ Cardinality(Inside) <= 1
  /\ \A t \in Inside : mutex.owner = t
  /\ Inside = {} =>
       /\ {frameList[i] : i \in 1 .. Len(frameList)} = frameMap
       /\ Len(frameList) = Cardinality(frameMap)
       /\ frameMap = Unpinned
  /\ \A i \in 1 .. Len(hist) : \A j \in 1 .. Len(hist) :
       ( /\ i < j
         /\ hist[i].op = "victim" /\ hist[j].op = "victim"
         /\ hist[i].frame # NoFrame /\ hist[i].frame = hist[j].frame )
       => \E k \in (i + 1) .. (j - 1) : hist[k].op = "unpin" /\ hist[k].frame = hist[i].frame

\* Two threads each got the same frame from victim(), one of them after the
\* frame was unpinned again.
C27_Witness ==
  /\ Inside = {}
  /\ \E i \in 1 .. Len(hist) : \E j \in 1 .. Len(hist) :
       /\ i < j
       /\ hist[i].op = "victim" /\ hist[j].op = "victim"
       /\ hist[i].frame # NoFrame /\ hist[i].frame = hist[j].frame
       /\ hist[i].by # hist[j].by

\* Page IDs far above any pageCount.  INVALID_PAGE_ID = 0xDEADBEEF exceeds
\* the signed 32-bit integers used here; the code compares IDs with
\* pageCount as unsigned 32-bit numbers, so it takes the branch these take.
FarPageIds == {65536, 2147483647}

\* C28: DiskManager's fetchPage returns nothing and deallocatePage returns
\* false for every ID >= pageCount; BufferPool's unpinPage and flushPage
\* return false for a page that is not resident; BufferPool's fetchPage
\* returns nothing and deletePage returns false for an ID >= pageCount;
\* createPage returns nothing for the page type INVALID.
C28_InvalidCallsRefused ==
  /\ \A pageId \in PageIds \cup FarPageIds :
       pageId >= pageCount =>
         /\ \A ioOk \in BOOLEAN : DiskFetchPage(Disk, pageId, ioOk) = NullPage
         /\ DeallocatePage(Disk, pageId) = [ok |-> FALSE, d |-> Disk]
  /\ \A pageId \in PageIds :
       ~Resident(pageId) =>
         /\ \A o \in UnpinOutcomes(pageId) : ~o.ok
         /\ \A o \in FlushOutcomes(pageId) : ~o.ok
  /\ \A pageId \in PageIds :
       pageId >= pageCount =>
         /\ \A o \in FetchOutcomes(pageId) : ~o.ok /\ o.page = NullPage
         /\ \A o \in DeleteOutcomes(pageId) : ~o.ok
  /\ \A o \in CreateOutcomes("INVALID") : ~o.ok /\ o.page = NullPage

\* deletePage has just been refused by deallocatePage, with pages allocated
\* and one of them resident.
C28_Witness ==
  /\ last.op = "deletePage"
  /\ last.why = "dealloc"
  /\ pageCount > 0
  /\ \E pageId \in PageIds : Resident(pageId)

(***************************************************************************)
(* IndexPages called directly: insertKey and removeKey with the keys of    *)
(* IndexKeys, split and merge of two different nodes, and the loop with    *)
(* which the tests fill a node, insertKey(i * 10, i * 100) for i below     *)
(* maxEntries().  No call is made on a node after one has accessed memory  *)
(* outside its page.                                                       *)
(***************************************************************************)
IndexIds == 1 .. MaxIndexPages

IndexKeys == {5, 10}

IndexFaulted == \E p \in IndexIds : index.pages[p].fault

Holds(node, key) ==
  LET pos == FindInsertPosition(node, key)
  IN pos < node.itemCount /\ EntryAt(node, pos).key = key

indexRest ==
  <<poolVars, diskVars, last, scen, dataVars, thr, callVars, pins, mutex, heap>>

insertKey(p, key) ==
  /\ ~IndexFaulted
  /\ index.calls < MaxIndexCalls
  /\ LET node == index.pages[p]
         r == InsertKey(node, key, key * 10)
     IN index' = [index EXCEPT !.pages[p] = r.pg,
                               !.calls = @ + 1,
                               !.dup = @ \/ Holds(node, key)]
  /\ UNCHANGED indexRest

removeKey(p, key) ==
  /\ ~IndexFaulted
  /\ index.calls < MaxIndexCalls
  /\ LET r == RemoveKey(index.pages[p], key)
     IN index' = [index EXCEPT !.pages[p] = r.pg,
                               !.calls = @ + 1]
  /\ UNCHANGED indexRest

split(p, q) ==
  /\ ~IndexFaulted
  /\ index.calls < MaxIndexCalls
  /\ p # q
  /\ LET r == Split(index.pages[p], index.pages[q])
     IN index' = [index EXCEPT !.pages[p] = r.pg,
                               !.pages[q] = r.newPage,
                               !.calls = @ + 1,
                               !.moved = TRUE]
  /\ UNCHANGED indexRest

merge(p, q) ==
  /\ ~IndexFaulted
  /\ index.calls < MaxIndexCalls
  /\ p # q
  /\ LET r == Merge(index.pages[p], index.pages[q])
     IN index' = [index EXCEPT !.pages[p] = r.pg,
                               !.calls = @ + 1,
                               !.moved = TRUE]
  /\ UNCHANGED indexRest

fillKeys(p) ==
  /\ ~IndexFaulted
  /\ index.fills < MaxFills
  /\ LET r == InsertKeys([pg |-> index.pages[p], hit |-> FALSE], 0, maxEntries)
     IN index' = [index EXCEPT !.pages[p] = r.pg,
                               !.fills = @ + 1,
                               !.dup = @ \/ r.hit]
  /\ UNCHANGED indexRest

NextIndex ==
  \/ \E p \in IndexIds : \E key \in IndexKeys : insertKey(p, key)
  \/ \E p \in IndexIds : \E key \in IndexKeys : removeKey(p, key)
  \/ \E p \in IndexIds : \E q \in IndexIds : split(p, q)
  \/ \E p \in IndexIds : \E q \in IndexIds : merge(p, q)
  \/ \E p \in IndexIds : fillKeys(p)

SpecIndex == InitData /\ [][NextIndex]_vars

\* The first itemCount entries of the node are strictly ascending by key.
StrictlyAscending(node) ==
  \A i \in 0 .. (node.itemCount - 2) : EntryAt(node, i).key < EntryAt(node, i + 1).key

\* C29 as stated: after any sequence of insertKey and removeKey calls on an
\* IndexPage its entries are strictly ascending by key, no key twice.
C29_StrictlyAscending ==
  ~index.moved => \A p \in IndexIds : StrictlyAscending(index.pages[p])

\* C29 amended: after any sequence of insertKey and removeKey calls in which
\* no insertKey was given a key the node held at that time, the entries of
\* an IndexPage are strictly ascending by key, no key twice.
C29_AscendingWithoutDuplicates ==
  (~index.moved /\ ~index.dup) => \A p \in IndexIds : StrictlyAscending(index.pages[p])

\* A full node from which a key was removed and into which a key that lies
\* between two of its keys was inserted.
C29_Witness ==
  /\ ~index.moved /\ ~index.dup
  /\ \E p \in IndexIds :
       /\ index.pages[p].itemCount = maxEntries
       /\ Holds(index.pages[p], 5)
       /\ ~Holds(index.pages[p], 10)

\* The node holds at most maxEntries() = 290 entries, all inside the page,
\* and refuses a further key, staying as it is, when it holds that many.
WithinCapacity(node) ==
  /\ ~node.fault
  /\ maxEntries = 290
  /\ node.itemCount <= maxEntries
  /\ INDEX_HEADER_SIZE + INDEX_ENTRY_SIZE * node.itemCount <= PAGE_SIZE
  /\ node.itemCount = maxEntries =>
       \A key \in IndexKeys \cup {999} :
         InsertKey(node, key, key * 10) = [pg |-> node, ok |-> FALSE]

\* C30: after any sequence of insertKey, removeKey, split and
\* merge calls on IndexPages, itemCount <= MAX_ENTRIES = 290, so that
\* 28 + 14 * itemCount <= 4096, and insertKey on a node holding MAX_ENTRIES
\* entries returns false and leaves the node unchanged.
C30_WithinCapacity ==
  \A p \in IndexIds : WithinCapacity(index.pages[p])

\* The keys of the first itemCount entries of the node.
KeysOf(node) == {EntryAt(node, i).key : i \in 0 .. (node.itemCount - 1)}

\* What split promises of this.split(newPage): the lower half stays, the
\* upper half is in newPage in the same order, the key returned is the one
\* that was at position n / 2, and the sibling links are set.
SplitMovesUpperHalf(node, newPage) ==
  LET n == node.itemCount
      r == Split(node, newPage)
  IN /\ ~r.pg.fault /\ ~r.newPage.fault
     /\ r.pg.itemCount = n \div 2
     /\ r.newPage.itemCount = n - n \div 2
     /\ EntriesFrom(r.pg, 0, r.pg.itemCount) = EntriesFrom(node, 0, n \div 2)
     /\ EntriesFrom(r.newPage, 0, r.newPage.itemCount) = EntriesFrom(node, n \div 2, n - n \div 2)
     /\ EntriesFrom(r.pg, 0, r.pg.itemCount) \o EntriesFrom(r.newPage, 0, r.newPage.itemCount)
          = EntriesFrom(node, 0, n)
     /\ r.key = EntryAt(node, n \div 2).key
     /\ r.newPage.nextPageId = node.nextPageId
     /\ r.newPage.prevPageId = node.id
     /\ r.pg.nextPageId = newPage.id

\* Every key left in this node < the key returned <= every key in newPage.
SplitSeparates(node, newPage) ==
  LET r == Split(node, newPage)
  IN /\ \A k \in KeysOf(r.pg) : k < r.key
     /\ \A k \in KeysOf(r.newPage) : r.key <= k

\* C31 as stated: split(newPage) on a node with n >= 1 entries and an empty
\* newPage keeps entries [0, n/2) and moves entries [n/2, n) to newPage in
\* order, every key left < returned key <= every key in newPage, returns the
\* key at position n/2 and sets the three sibling links.
C31_SplitHalves ==
  \A p \in IndexIds : \A q \in IndexIds \ {p} :
    (index.pages[p].itemCount >= 1 /\ index.pages[q].itemCount = 0) =>
      /\ SplitMovesUpperHalf(index.pages[p], index.pages[q])
      /\ SplitSeparates(index.pages[p], index.pages[q])

\* C31 amended: the same, for a node whose keys are strictly ascending
\* (no key was inserted twice).
C31_SplitHalvesOfAscending ==
  \A p \in IndexIds : \A q \in IndexIds \ {p} :
    (/\ index.pages[p].itemCount >= 1
     /\ index.pages[q].itemCount = 0
     /\ StrictlyAscending(index.pages[p])) =>
      /\ SplitMovesUpperHalf(index.pages[p], index.pages[q])
      /\ SplitSeparates(index.pages[p], index.pages[q])

\* A node filled to maxEntries() has been split into the other, new node:
\* the one single call made set the links, and each node holds a half.
C31_Witness ==
  /\ index.calls = 1 /\ index.fills = 1 /\ ~index.dup
  /\ index.pages[1].nextPageId = 2
  /\ index.pages[2].prevPageId = 1
  /\ index.pages[1].itemCount = maxEntries \div 2
  /\ index.pages[2].itemCount = maxEntries - maxEntries \div 2
  /\ StrictlyAscending(index.pages[1])
  /\ EntryAt(index.pages[2], 0).key = (maxEntries \div 2) * 10

\* What merge promises of this.merge(rightSibling) when the entries fit:
\* true, the right sibling's entries after this node's, itemCount the sum
\* and the right sibling's next link taken over.
MergeAppends(node, rightSibling) ==
  LET r == Merge(node, rightSibling)
      n == node.itemCount
      k == rightSibling.itemCount
  IN /\ r.ok /\ ~r.pg.fault
     /\ r.pg.itemCount = n + k
     /\ EntriesFrom(r.pg, 0, n + k) = EntriesFrom(node, 0, n) \o EntriesFrom(rightSibling, 0, k)
     /\ r.pg.nextPageId = rightSibling.nextPageId

\* freeSpace is 14 bytes lower for every entry appended.
MergeLowersFreeSpace(node, rightSibling) ==
  Merge(node, rightSibling).pg.freeSpace
    = node.freeSpace - INDEX_ENTRY_SIZE * rightSibling.itemCount

\* C32: merge(rightSibling) returns false and changes neither node when
\* itemCount + rightSibling.itemCount > MAX_ENTRIES; otherwise it returns
\* true, appends the right sibling's entries in order, sets itemCount to the
\* sum, lowers freeSpace by 14 bytes per appended entry and takes over the
\* right sibling's next link.
C32_MergeAppendsOrRefuses ==
  \A p \in IndexIds : \A q \in IndexIds \ {p} :
    LET node == index.pages[p]
        rightSibling == index.pages[q]
    IN IF node.itemCount + rightSibling.itemCount > maxEntries
       THEN Merge(node, rightSibling) = [pg |-> node, ok |-> FALSE]
       ELSE MergeAppends(node, rightSibling) /\ MergeLowersFreeSpace(node, rightSibling)

(***************************************************************************)
(* Leaves and internal nodes looked up: a node is constructed anew as a    *)
(* leaf or as an internal node of level 1, keys are inserted and removed,  *)
(* nodes are split and merged, and lookup is asked for the keys of         *)
(* LookupKeys in every state reached.                                      *)
(***************************************************************************)
LookupKeys == UNION {{key - 1, key, key + 1} : key \in IndexKeys}

newIndexPage(p, isLeaf) ==
  /\ ~IndexFaulted
  /\ index.calls < MaxIndexCalls
  /\ index' = [index EXCEPT !.pages[p] = IndexPage(p, isLeaf, IF isLeaf THEN 0 ELSE 1),
                            !.calls = @ + 1]
  /\ UNCHANGED indexRest

NextLookup ==
  \/ \E p \in IndexIds : \E isLeaf \in BOOLEAN : newIndexPage(p, isLeaf)
  \/ \E p \in IndexIds : \E key \in IndexKeys : insertKey(p, key)
  \/ \E p \in IndexIds : \E key \in IndexKeys : removeKey(p, key)
  \/ \E p \in IndexIds : \E q \in IndexIds : split(p, q)
  \/ \E p \in IndexIds : \E q \in IndexIds : merge(p, q)

SpecLookup == InitData /\ [][NextLookup]_vars

\* The indexes of the node's entries with the key, and with a smaller key.
EntriesWithKey(node, key) ==
  {i \in 0 .. (node.itemCount - 1) : EntryAt(node, i).key = key}

EntriesBelow(node, key) ==
  {i \in 0 .. (node.itemCount - 1) : EntryAt(node, i).key < key}

\* What lookup promises of node.lookup(key).
LookupFindsEntry(node, key) ==
  LET r == Lookup(node, key)
      same == EntriesWithKey(node, key)
      below == EntriesBelow(node, key)
  IN /\ same # {} => r.found /\ \E i \in same : r.pageId = EntryAt(node, i).pageId
     /\ (same = {} /\ node.isLeaf) => ~r.found
     /\ (same = {} /\ ~node.isLeaf /\ below # {}) =>
          /\ r.found
          /\ \E i \in below :
               /\ \A j \in below : EntryAt(node, j).key <= EntryAt(node, i).key
               /\ r.pageId = EntryAt(node, i).pageId
     /\ (same = {} /\ ~node.isLeaf /\ below = {} /\ node.itemCount > 0) =>
          r.found /\ r.pageId = EntryAt(node, 0).pageId
     /\ r.found => \E i \in 0 .. (node.itemCount - 1) : r.pageId = EntryAt(node, i).pageId

\* C33: lookup(key) returns the pageId of the entry whose key equals key
\* when there is one; otherwise nothing on a leaf, and on an internal node
\* the pageId of the entry with the greatest key smaller than key, or of the
\* first entry when key is smaller than every key of the node; a returned
\* pageId always belongs to one of the node's itemCount entries, also for a
\* node with no entries.
C33_LookupFindsEntry ==
  \A p \in IndexIds : \A key \in LookupKeys : LookupFindsEntry(index.pages[p], key)

(***************************************************************************)
(* One PageHeap, constructed with a capacity of 0 .. MaxCapacity and then  *)
(* called with insert and, while it is not empty, extractMin.  No call is  *)
(* made after one has accessed memory outside the array.                   *)
(***************************************************************************)
heapRest ==
  <<poolVars, diskVars, last, scen, dataVars, thr, callVars, pins, mutex, index>>

newPageHeap(capacity) ==
  /\ ~heap.made
  /\ heap' = [heap EXCEPT !.h = PageHeap(capacity), !.made = TRUE]
  /\ UNCHANGED heapRest

heapInsert(pageId) ==
  /\ heap.made /\ ~heap.h.fault
  /\ heap.inserts + heap.extracts < MaxHeapCalls
  /\ heap' = [heap EXCEPT !.h = Insert(heap.h, pageId),
                          !.held[pageId] = @ + 1,
                          !.inserts = @ + 1]
  /\ UNCHANGED heapRest

heapExtractMin ==
  /\ heap.made /\ ~heap.h.fault
  /\ heap.inserts + heap.extracts < MaxHeapCalls
  /\ heap.h.heapSize > 0
  /\ LET r == ExtractMin(heap.h)
     IN heap' = [heap EXCEPT !.h = r.h,
                             !.held = IF r.min \in HeapIds /\ @[r.min] > 0
                                      THEN [@ EXCEPT ![r.min] = @ - 1] ELSE @,
                             !.extracts = @ + 1]
  /\ UNCHANGED heapRest

NextHeap ==
  \/ \E capacity \in 0 .. MaxCapacity : newPageHeap(capacity)
  \/ \E pageId \in HeapIds : heapInsert(pageId)
  \/ heapExtractMin

SpecHeap == InitData /\ [][NextHeap]_vars

\* How many of the heapSize elements of the array are the page ID.
CopiesIn(h, pageId) ==
  Cardinality({i \in 0 .. (h.heapSize - 1) : PagesAt(h, i) = pageId})

\* The heap holds the page IDs of held, each as often as held says.
HoldsExactly(h, held) ==
  /\ \A id \in HeapIds : CopiesIn(h, id) = held[id]
  /\ \A i \in 0 .. (h.heapSize - 1) : PagesAt(h, i) \in HeapIds

RECURSIVE Drain(_)
\* What extractMin returns, call after call, until the heap is empty.
Drain(h) ==
  IF h.heapSize <= 0 \/ h.fault THEN <<>>
  ELSE <<ExtractMin(h).min>> \o Drain(ExtractMin(h).h)

RECURSIVE Ascending(_, _)
\* The page IDs of held from id on, in non-decreasing order.
Ascending(held, id) ==
  IF id > MaxHeapId THEN <<>>
  ELSE [i \in 1 .. held[id] |-> id] \o Ascending(held, id + 1)

\* C34: for any sequence of PageHeap insert and extractMin calls in which
\* extractMin is only called on a non-empty heap, each extractMin returns
\* the smallest page ID held (the value minimum() reports) and removes one
\* copy of it, so draining the heap yields the inserted IDs in
\* non-decreasing order, duplicates included; size() equals inserts minus
\* extracts, also when the heap grows past its initial capacity.
C34_ExtractsInOrder ==
  heap.made =>
    /\ ~heap.h.fault
    /\ heap.h.heapSize = heap.inserts - heap.extracts
    /\ HoldsExactly(heap.h, heap.held)
    /\ Drain(heap.h) = Ascending(heap.held, 0)
    /\ heap.h.heapSize > 0 =>
         LET r == ExtractMin(heap.h)
             smallest == SetMin({id \in HeapIds : heap.held[id] > 0})
         IN /\ Minimum(heap.h) = smallest
            /\ r.min = smallest
            /\ ~r.h.fault
            /\ HoldsExactly(r.h, [heap.held EXCEPT ![smallest] = @ - 1])

\* C35: a page ID is never live twice: allocatePage never returns an ID that
\* it returned before and that has not been deallocated since, after any
\* sequence of allocatePage and deallocatePage calls, deallocating the same
\* page ID twice included.
C35_NeverLiveTwice ==
  dm.alive => DmAllocatePage(DiskM).id \notin dm.live

\* The slots of the page whose DELETED flag is set.
DeletedSlots(m) ==
  {s \in 0 .. (SlotCount(m) - 1) : IsSet(Rd16(m, Slots(m, s) + 4), DELETED)}

RECURSIVE FreeSlotList(_, _, _)
\* The slots met from slot s on by following the offset fields, up to n of
\* them; it stops at INVALID_SLOT and at a slot outside the slot array.
FreeSlotList(m, s, n) ==
  IF s = INVALID_SLOT \/ s >= SlotCount(m) \/ n = 0 THEN <<>>
  ELSE <<s>> \o FreeSlotList(m, Rd16(m, Slots(m, s)), n - 1)

\* The link of the last slot met.
FreeSlotListEnd(m, walk) ==
  IF walk = <<>> THEN FirstFreeSlot(m) ELSE Rd16(m, Slots(m, walk[Len(walk)]))

RECURSIVE InIndexOrder(_, _)
\* The slots of S from slot s on, lowest first.
InIndexOrder(S, s) ==
  IF \A t \in S : t < s THEN <<>>
  ELSE (IF s \in S THEN <<s>> ELSE <<>>) \o InIndexOrder(S, s + 1)

\* The free-slot list ends with INVALID_SLOT and visits exactly the deleted
\* slots, each once.
FreeListIsDeletedSlots(m) ==
  LET walk == FreeSlotList(m, FirstFreeSlot(m), SlotCount(m) + 1)
  IN /\ FreeSlotListEnd(m, walk) = INVALID_SLOT
     /\ \A i, j \in 1 .. Len(walk) : i # j => walk[i] # walk[j]
     /\ SeqRange(walk) = DeletedSlots(m)

\* C36: after any sequence of insertRecord, deleteRecord and compact calls
\* the free-slot list that starts at firstFreeSlot and follows the slots'
\* offset fields is finite, ends with INVALID_SLOT and visits exactly the
\* slots whose DELETED flag is set, each once; after compact() the deleted
\* slots are linked in index order and the last one's link is INVALID_SLOT;
\* so insertRecord never returns the ID of a slot holding a live record nor
\* an ID >= slotCount.
C36_FreeListWellFormed ==
  ~fault =>
    /\ FreeListIsDeletedSlots(mem)
    /\ LET c == Compact(Page)
       IN ~c.pg.fault =>
            /\ FreeListIsDeletedSlots(c.pg.mem)
            /\ FreeSlotList(c.pg.mem, FirstFreeSlot(c.pg.mem), SlotCount(c.pg.mem) + 1)
                 = InIndexOrder(DeletedSlots(c.pg.mem), 0)
    /\ \A rec \in Records :
         LET r == InsertRecord(Page, rec.key, rec.data, rec.type)
         IN (r.ok /\ ~r.pg.fault) =>
              /\ r.slotId < SlotCount(r.pg.mem)
              /\ r.slotId < SlotCount(mem) => r.slotId \in DeletedSlots(mem)

\* C37: a createPage call that returns nothing, because no frame is
\* available, because the victim cannot be evicted or because the page type
\* is rejected, has no side effect: pageCount and the free-page list of the
\* DiskManager, the page table, every frame's page, pin count and dirty bit,
\* and the replacer's eviction candidates are the same as before the call.
C37_FailedCreateNoEffect ==
  \A type \in CreateTypes : \A o \in CreateOutcomes(type) :
    ~o.ok =>
      /\ o.s.disk.pageCount = pageCount
      /\ o.s.disk.freePages = freePages
      /\ o.s.pageTable = pageTable
      /\ \A f \in FrameIdx :
           /\ o.s.frames[f].page = frames[f].page
           /\ o.s.frames[f].pinCount = frames[f].pinCount
           /\ o.s.frames[f].dirty = frames[f].dirty
      /\ o.s.rep = Replacer

\* C38: the key directory only resolves a key to that key's own record:
\* whenever getSlotId(k) returns a slot s and getRecord(s) returns a record,
\* that record is the one last inserted under key k, also after the record
\* of k was deleted and its slot reused by an insert of another key.
C38_KeyResolvesToOwnRecord ==
  ~fault =>
    \A rec \in Records :
      LET g == GetSlotId(Page, rec.key)
      IN (g.ok /\ GetRecord(Page, g.slotId).ok) => ReadsBack(Page, g.slotId, rec)

RECURSIVE LiveRecordBytes(_, _)
\* The total length, record header and payload, of the records of the
\* slots from i on that are not deleted.
LiveRecordBytes(m, i) ==
  IF i >= SlotCount(m) THEN 0
  ELSE (IF IsSet(Rd16(m, Slots(m, i) + 4), DELETED) THEN 0 ELSE Rd16(m, Slots(m, i) + 2))
         + LiveRecordBytes(m, i + 1)

\* needsCompact() is true exactly when more than a quarter of the used
\* space is not live record data.
QuarterNotLive(pg) ==
  LET usedSpace == PAGE_SIZE - FreeSpace(pg.mem)
      liveRecordBytes == LiveRecordBytes(pg.mem, 0)
      r == NeedsCompact(pg)
  IN /\ ~r.fault
     /\ r.ok <=> (usedSpace > 0 /\ (usedSpace - liveRecordBytes) * 4 > usedSpace)

\* Payload lengths around the one at which a quarter of a page with one
\* record is not live record data.
QuarterLengths == {84, 85, 100, 101}

\* C39: needsCompact() returns true exactly when usedSpace > 0 and
\* (usedSpace - liveRecordBytes) * 4 > usedSpace, where usedSpace is
\* 4096 - freeSpace and liveRecordBytes is the total size, record header
\* plus payload, of the records of the non-deleted slots.
C39_NeedsCompactQuarter ==
  ~fault =>
    /\ QuarterNotLive(Page)
    /\ \A length \in QuarterLengths :
         LET r == InsertRecord(Page, FillKey, Zeros(length), 3)
         IN (r.ok /\ ~r.pg.fault) => QuarterNotLive(r.pg)

\* p.split(q) followed by p.merge(q) gives p back as it was.
SplitMergeRestores(node, newPage) ==
  LET n == node.itemCount
      halves == Split(node, newPage)
      r == Merge(halves.pg, halves.newPage)
  IN /\ r.ok
     /\ ~r.pg.fault /\ ~halves.newPage.fault
     /\ EntriesFrom(r.pg, 0, r.pg.itemCount) = EntriesFrom(node, 0, n)
     /\ r.pg.itemCount = n
     /\ r.pg.freeSpace = node.freeSpace
     /\ r.pg.nextPageId = node.nextPageId

\* C40: splitting an IndexPage and merging it back is the identity on the
\* node: for a node p with at least one entry and an empty node q,
\* p.split(q) followed by p.merge(q) returns true and leaves p with its
\* original entries in the original order, its original itemCount and
\* freeSpace, and its original next link.  (Stated of the nodes on which no
\* call has written outside the page.)
C40_SplitMergeIdentity ==
  ~IndexFaulted =>
    \A p \in IndexIds : \A q \in IndexIds \ {p} :
      (index.pages[p].itemCount >= 1 /\ index.pages[q].itemCount = 0) =>
        SplitMergeRestores(index.pages[p], index.pages[q])

\* A node filled to maxEntries() has been split into the other, new node
\* and merged with it again: it holds its maxEntries() entries and has its
\* next link back, and the other node still holds the upper half.
C40_Witness ==
  /\ index.calls = 2 /\ index.fills = 1 /\ ~index.dup
  /\ index.pages[1].itemCount = maxEntries
  /\ index.pages[1].freeSpace = INDEX_MAX_FREE_SPACE - maxEntries * INDEX_ENTRY_SIZE
  /\ index.pages[1].nextPageId = 0
  /\ index.pages[2].prevPageId = 1
  /\ index.pages[2].itemCount = maxEntries - maxEntries \div 2
  /\ StrictlyAscending(index.pages[1])

====
